---- MODULE Spec2Model ----
(***************************************************************************)
(* power-edge: the reconciliation agent of one node.                       *)
(*                                                                         *)
(* Appliers (pkg/apply) read and mutate the live OS state, enforcers       *)
(* (pkg/reconciler) wrap one applier call into one ReconcileResult, and    *)
(* the Reconciler walks a desired-state snapshot kind by kind.             *)
(*                                                                         *)
(* The live OS is the record os; every OS command an applier runs is a     *)
(* read or an update of it, and may fail: the parameter fail names the     *)
(* one command of the call that fails ("none": no command fails).          *)
(***************************************************************************)
EXTENDS Integers, Sequences, FiniteSets, TLC

VARIABLES
    os,        \* live OS state of the node
    kind,      \* applier harness: the applier kind under test
    last,      \* applier harness: the latest Apply call (spec, dryRun, result, OS before)
    streak,    \* applier harness: consecutive failure-free Apply(R, false) calls of one R
    mode,      \* Reconciler.mode
    state,     \* the desired-state snapshot (config.State)
    pc,        \* per caller: where its reconcile call stands
    run,       \* per caller: entry point, modes read, results gathered, enforcer calls made
    used,      \* how many failing OS commands, SetMode calls and Reconciler calls so far
    enforcers, \* the enforcer references of the Reconciler that are not nil
    health,    \* what the latest HealthCheck returned
    watcher,   \* the EventWatcher: config, eventChan, ctx, wg
    routine,   \* per goroutine of the watcher: where it stands
    trail,     \* the events made, queued and handled so far
    sched,     \* runPeriodicChecks: where it stands, its ticks and cycles, the metrics
    sync       \* GitOpsSync: where Start stands, its pulls and its callback calls

vars == <<os, kind, last, streak, mode, state, pc, run, used,
          enforcers, health, watcher, routine, trail, sched, sync>>
checkVars == <<enforcers, health, sync>>
watchVars == <<watcher, routine, trail>>
schedVars == <<sched>>

(***************************************************************************)
(* Values                                                                  *)
(***************************************************************************)
ModeDisabled == "disabled"
ModeDryRun == "dry-run"
ModeEnforce == "enforce"
Modes == {ModeDisabled, ModeDryRun, ModeEnforce}

NoError == "nil"

ServiceStateRunning == "running"
ServiceStateStopped == "stopped"
PackageStatePresent == "present"
PackageStateAbsent == "absent"
PackageStateLatest == "latest"

\* ApplyResult plus what the call did to the OS: os is the OS after the call,
\* muts the mutating commands the call ran, in order (a failed one included).
Res(o, changed, actions, err, muts) ==
    [os |-> o, Changed |-> changed, Actions |-> actions, Error |-> err, muts |-> muts]

(***************************************************************************)
(* The parts of the agent at rest: a Reconciler as NewReconciler builds it, *)
(* an EventWatcher as NewEventWatcher builds it, and a scheduler that has   *)
(* not started.                                                            *)
(***************************************************************************)
EnforcerRefs == {"service", "sysctl", "firewall", "package", "file"}
NoState == [Services |-> <<>>, Sysctl |-> <<>>,
            Firewall |-> [Enabled |-> FALSE, AllowedServices |-> <<>>],
            Packages |-> <<>>, Files |-> <<>>]
Listeners == {"inotify", "journald", "auditd", "dbus"}
Routines == {"processEvents"} \cup Listeners
NoEvent == [Type |-> "none", Source |-> "none", Name |-> "", id |-> 0]
NoStart == "none"
NoWatcher ==
    [config |-> [Enabled |-> FALSE, Listeners |-> {}], reconciler |-> FALSE,
     state |-> NoState, eventChan |-> <<>>, closed |-> FALSE, ctx |-> "none", wg |-> 0,
     start |-> NoStart, stop |-> "none"]
NoRoutines == [r \in Routines |-> [at |-> "none", event |-> NoEvent, batch |-> 0]]
NoTrail == [made |-> 0, queued |-> <<>>, handled |-> <<>>]
NoSched == [at |-> "off", ticks |-> 0, cancelled |-> FALSE, checks |-> 0,
            cycles |-> <<>>, metrics |-> <<>>, proc |-> "running", state |-> NoState]
NoSync == [at |-> "off", cancelled |-> FALSE, err |-> NoError, polls |-> <<>>, calls |-> <<>>]
Constructed == enforcers = EnforcerRefs /\ health = "none" /\ sync = NoSync
NotWatching == watcher = NoWatcher /\ routine = NoRoutines /\ trail = NoTrail
NotScheduled == sched = NoSched

(***************************************************************************)
(* Strings the code converts.  A string is spelled out as the sequence of  *)
(* its characters, the conversions work on the characters.                 *)
(***************************************************************************)
Chars(s) ==
    CASE s = ""     -> <<>>
      [] s = "0"    -> <<"0">>
      [] s = "1"    -> <<"1">>
      [] s = "1 "   -> <<"1", " ">>
      [] s = "0644" -> <<"0", "6", "4", "4">>
      [] s = "0600" -> <<"0", "6", "0", "0">>
      [] s = "644"  -> <<"6", "4", "4">>
      [] s = "rw"   -> <<"r", "w">>
      [] s = "systemctl" -> <<"s", "y", "s", "t", "e", "m", "c", "t", "l">>
      [] s = "sysctl" -> <<"s", "y", "s", "c", "t", "l">>
      [] s = "ufw" -> <<"u", "f", "w">>
      [] s = "firewall-cmd" -> <<"f", "i", "r", "e", "w", "a", "l", "l", "-", "c", "m", "d">>
      [] s = "apt" -> <<"a", "p", "t">>
      [] s = "yum" -> <<"y", "u", "m">>
      [] s = "dnf" -> <<"d", "n", "f">>
      [] s = "ls" -> <<"l", "s">>
      [] s = "apt-get" -> <<"a", "p", "t", "-", "g", "e", "t">>
      [] s = "dpkg-query" -> <<"d", "p", "k", "g", "-", "q", "u", "e", "r", "y">>
      [] s = "rpm" -> <<"r", "p", "m">>
      [] s = "stat" -> <<"s", "t", "a", "t">>

Strings == {"", "0", "1", "1 ", "0644", "0600", "644", "rw"}

\* The string with the given characters.
Str(cs) == CHOOSE s \in Strings : Chars(s) = cs

RECURSIVE TrimLeft(_)
TrimLeft(cs) == IF cs # <<>> /\ Head(cs) = " " THEN TrimLeft(Tail(cs)) ELSE cs

RECURSIVE TrimRight(_)
TrimRight(cs) ==
    IF cs # <<>> /\ cs[Len(cs)] = " " THEN TrimRight(SubSeq(cs, 1, Len(cs) - 1)) ELSE cs

\* strings.Contains, on the characters.
Contains(cs, sub) ==
    \E i \in 0..(Len(cs) - Len(sub)) : SubSeq(cs, i + 1, i + Len(sub)) = sub

\* strings.TrimSpace
TrimSpace(s) == Str(TrimRight(TrimLeft(Chars(s))))

OctalDigit(c) ==
    CASE c = "0" -> 0 [] c = "1" -> 1 [] c = "4" -> 4 [] c = "6" -> 6 [] OTHER -> -1

RECURSIVE ParseOctal(_, _)
ParseOctal(cs, acc) ==
    IF cs = <<>> THEN acc
    ELSE IF OctalDigit(Head(cs)) < 0 THEN -1
    ELSE ParseOctal(Tail(cs), acc * 8 + OctalDigit(Head(cs)))

\* strconv.ParseUint(mode, 8, 32): the number, or -1 for a syntax error.
ParseUint8(s) == IF Chars(s) = <<>> THEN -1 ELSE ParseOctal(Chars(s), 0)

DigitChar(d) == CASE d = 0 -> "0" [] d = 1 -> "1" [] d = 4 -> "4" [] d = 6 -> "6"

RECURSIVE OctalChars(_)
OctalChars(n) == IF n < 8 THEN <<DigitChar(n)>> ELSE OctalChars(n \div 8) \o <<DigitChar(n % 8)>>

RECURSIVE PadZero(_, _)
PadZero(cs, w) == IF Len(cs) >= w THEN cs ELSE PadZero(<<"0">> \o cs, w)

\* fmt.Sprintf("%04o", mode)
FormatMode(n) == Str(PadZero(OctalChars(n), 4))

\* os.FileMode.Perm(): the nine permission bits.
Perm(n) == n % 512

\* os.WriteFile(path, content, 0644) creates a file with these bits (umask 022).
WriteFilePerm == 420

\* crypto/sha256 of a file's content, in hex.
SHA256Of(content) ==
    CASE content = "hello" -> "2cf24d" [] content = "world" -> "486ea4" [] OTHER -> "e3b0c4"

(***************************************************************************)
(* ServiceApplier                                                          *)
(***************************************************************************)
\* isServiceActive / isServiceEnabled: systemctl is-active, is-enabled.
isServiceActive(o, name) == o.svc[name].active
isServiceEnabled(o, name) == o.svc[name].enabled

\* A faulty variant of executeSystemctl: start and stop flip the unit.
executeSystemctlToggle(o, action, name) ==
    CASE action \in {<<"start">>, <<"stop">>} -> [o EXCEPT !.svc[name].active = ~@]
      [] action = <<"enable">>  -> [o EXCEPT !.svc[name].enabled = TRUE]
      [] action = <<"disable">> -> [o EXCEPT !.svc[name].enabled = FALSE]

\* executeSystemctl(action, name), when systemctl succeeds.
executeSystemctl(o, action, name) ==
    CASE action = <<"start">>   -> [o EXCEPT !.svc[name].active = TRUE]
      [] action = <<"stop">>    -> [o EXCEPT !.svc[name].active = FALSE]
      [] action = <<"enable">>  -> [o EXCEPT !.svc[name].enabled = TRUE]
      [] action = <<"disable">> -> [o EXCEPT !.svc[name].enabled = FALSE]

\* A faulty variant of ServiceActions: the enabled flag is never looked at.
ServiceActionsStateOnly(svc, isActive, isEnabled) ==
    IF svc.State = ServiceStateRunning /\ ~isActive THEN << <<"start">> >>
    ELSE IF svc.State = ServiceStateStopped /\ isActive THEN << <<"stop">> >>
    ELSE <<>>

\* The actions Apply decides on: start|stop, then enable|disable.
ServiceActions(svc, isActive, isEnabled) ==
    (IF svc.State = ServiceStateRunning /\ ~isActive THEN << <<"start">> >>
     ELSE IF svc.State = ServiceStateStopped /\ isActive THEN << <<"stop">> >>
     ELSE <<>>)
    \o
    (IF svc.Enabled /\ ~isEnabled THEN << <<"enable">> >>
     ELSE IF ~svc.Enabled /\ isEnabled THEN << <<"disable">> >>
     ELSE <<>>)

\* A faulty variant of ServiceRun: the loop goes on after a systemctl call
\* that failed.
RECURSIVE ServiceRunOn(_, _, _, _)
ServiceRunOn(o, actions, name, fail) ==
    IF actions = <<>> THEN [os |-> o, Error |-> NoError, muts |-> <<>>]
    ELSE LET failed == Head(actions) = <<fail>>
             r == ServiceRunOn(IF failed THEN o ELSE executeSystemctl(o, Head(actions), name),
                               Tail(actions), name, fail)
         IN  [r EXCEPT !.muts = <<Head(actions)>> \o @,
                       !.Error = IF failed THEN "failed to execute systemctl" ELSE @]

\* The loop over the actions: stops at the first systemctl call that fails.
RECURSIVE ServiceRun(_, _, _, _)
ServiceRun(o, actions, name, fail) ==
    IF actions = <<>> THEN [os |-> o, Error |-> NoError, muts |-> <<>>]
    ELSE IF Head(actions) = <<fail>>
         THEN [os |-> o, Error |-> "failed to execute systemctl", muts |-> <<Head(actions)>>]
    ELSE LET r == ServiceRun(executeSystemctl(o, Head(actions), name), Tail(actions), name, fail)
         IN  [r EXCEPT !.muts = <<Head(actions)>> \o @]

ServiceFails == {"none", "is-active", "is-enabled", "start", "stop", "enable", "disable"}

ServiceApply(o, svc, dryRun, fail) ==
    IF fail = "is-active" THEN Res(o, FALSE, <<>>, "failed to check service status", <<>>)
    ELSE IF fail = "is-enabled"
         THEN Res(o, FALSE, <<>>, "failed to check service enabled status", <<>>)
    ELSE LET actions == ServiceActions(svc, isServiceActive(o, svc.Name),
                                       isServiceEnabled(o, svc.Name))
         IN  IF actions = <<>> THEN Res(o, FALSE, <<>>, NoError, <<>>)
             ELSE IF dryRun THEN Res(o, TRUE, actions, NoError, <<>>)
             ELSE LET r == ServiceRun(o, actions, svc.Name, fail)
                  IN  Res(r.os, TRUE, actions, r.Error, r.muts)

\* ServiceApplier.Check
ServiceCheck(o, name) == <<isServiceActive(o, name), isServiceEnabled(o, name)>>

(***************************************************************************)
(* SysctlApplier                                                           *)
(***************************************************************************)
\* Get: sysctl -n key, trimmed.
SysctlGet(o, key) == TrimSpace(o.sysctl[key])

\* Set: sysctl -w key=value, when it succeeds.
SysctlSet(o, key, value) == [o EXCEPT !.sysctl[key] = value]

SysctlFails == {"none", "get", "set"}

SysctlApply(o, key, desiredValue, dryRun, fail) ==
    IF fail = "get" THEN Res(o, FALSE, <<>>, "failed to get sysctl value", <<>>)
    ELSE IF SysctlGet(o, key) = desiredValue THEN Res(o, FALSE, <<>>, NoError, <<>>)
    ELSE LET actions == << <<"sysctl -w", key, desiredValue>> >>
         IN  IF dryRun THEN Res(o, TRUE, actions, NoError, <<>>)
             ELSE IF fail = "set"
                  THEN Res(o, TRUE, actions, "failed to set sysctl value", actions)
             ELSE Res(SysctlSet(o, key, desiredValue), TRUE, actions, NoError, actions)

(***************************************************************************)
(* FirewallApplier (ufw)                                                   *)
(***************************************************************************)
isUFWInstalled(o) == o.fw.installed

\* isEnabled: "ufw status" prints "Status: active".
FirewallIsEnabled(o) == o.fw.enabled

FirewallEnable(o) == [o EXCEPT !.fw.enabled = TRUE]
FirewallDisable(o) == [o EXCEPT !.fw.enabled = FALSE]

\* A faulty variant of allowService: the rule replaces the ones there are.
allowServiceOnly(o, service) == [o EXCEPT !.fw.allowed = {service}]

\* allowService: ufw allow <service>, when it succeeds.
allowService(o, service) == [o EXCEPT !.fw.allowed = @ \cup {service}]

\* The loop over fw.AllowedServices; r is the call's result so far.  Every
\* service gets its action, and its allow command unless dryRun; the command
\* that fails ends the call before Changed is set for that service.
RECURSIVE FirewallAllowLoop(_, _, _, _)
FirewallAllowLoop(r, services, dryRun, fail) ==
    IF services = <<>> THEN r
    ELSE LET service == Head(services)
             action == <<"ufw allow", service>>
             r1 == [r EXCEPT !.Actions = Append(@, action)]
         IN  IF dryRun
             THEN FirewallAllowLoop([r1 EXCEPT !.Changed = TRUE], Tail(services), dryRun, fail)
             ELSE IF fail = service
                  THEN [r1 EXCEPT !.Error = "failed to allow service",
                                  !.muts = Append(@, action)]
             ELSE FirewallAllowLoop([r1 EXCEPT !.os = allowService(@, service),
                                               !.muts = Append(@, action),
                                               !.Changed = TRUE],
                                    Tail(services), dryRun, fail)

\* The enabled/disabled step of Apply.
FirewallToggle(o, fw, isEnabled, dryRun, fail) ==
    IF fw.Enabled /\ ~isEnabled
    THEN IF dryRun THEN Res(o, TRUE, << <<"ufw enable">> >>, NoError, <<>>)
         ELSE IF fail = "enable"
              THEN Res(o, TRUE, << <<"ufw enable">> >>, "ufw enable failed", << <<"ufw enable">> >>)
         ELSE Res(FirewallEnable(o), TRUE, << <<"ufw enable">> >>, NoError, << <<"ufw enable">> >>)
    ELSE IF ~fw.Enabled /\ isEnabled
    THEN IF dryRun THEN Res(o, TRUE, << <<"ufw disable">> >>, NoError, <<>>)
         ELSE IF fail = "disable"
              THEN Res(o, TRUE, << <<"ufw disable">> >>, "ufw disable failed", << <<"ufw disable">> >>)
         ELSE Res(FirewallDisable(o), TRUE, << <<"ufw disable">> >>, NoError, << <<"ufw disable">> >>)
    ELSE Res(o, FALSE, <<>>, NoError, <<>>)

\* A failing "ufw allow <service>" is named by its service.
FirewallFails == {"none", "status", "enable", "disable", "ssh", "http"}

FirewallApply(o, fw, dryRun, fail) ==
    IF ~isUFWInstalled(o) THEN Res(o, FALSE, <<>>, "ufw is not installed", <<>>)
    ELSE IF fail = "status" THEN Res(o, FALSE, <<>>, "failed to check UFW status", <<>>)
    ELSE LET r == FirewallToggle(o, fw, FirewallIsEnabled(o), dryRun, fail)
         IN  IF r.Error # NoError THEN r
             ELSE IF fw.Enabled /\ Len(fw.AllowedServices) > 0
                  THEN FirewallAllowLoop(r, fw.AllowedServices, dryRun, fail)
             ELSE r

\* FirewallApplier.Check
FirewallCheck(o) == FirewallIsEnabled(o)

(***************************************************************************)
(* PackageApplier                                                          *)
(***************************************************************************)
\* The version a plain install or an upgrade ends with.
LatestVersion == "2.0"

\* rpm -q prints name-version-release.arch.
RpmQuery(name, version) ==
    CASE version = "1.0" -> "curl-1.0-1.el8.x86_64"
      [] version = "2.0" -> "curl-2.0-1.el8.x86_64"
      [] OTHER -> ""

\* isInstalledApt / isInstalledYum: a query that fails reads as "not installed".
isInstalled(o, name, fail) ==
    IF fail = "query" \/ ~o.pkg[name].installed
    THEN [installed |-> FALSE, version |-> ""]
    ELSE IF o.pm = "apt"
         THEN [installed |-> TRUE, version |-> o.pkg[name].version]
    ELSE [installed |-> TRUE, version |-> RpmQuery(name, o.pkg[name].version)]

\* install(name, version), remove(name), upgrade(name), when the command succeeds.
PackageInstall(o, name, version) ==
    [o EXCEPT !.pkg[name] = [installed |-> TRUE,
                             version |-> IF version = "" THEN LatestVersion ELSE version]]
PackageRemove(o, name) == [o EXCEPT !.pkg[name] = [installed |-> FALSE, version |-> ""]]
PackageUpgrade(o, name) ==
    [o EXCEPT !.pkg[name] = [installed |-> TRUE, version |-> LatestVersion]]

\* A faulty variant of PackageStep: the command runs in dry-run too.
PackageStepEager(o, action, after, dryRun, failed, before) ==
    IF failed THEN Res(o, before, <<action>>, "package command failed", <<action>>)
    ELSE Res(after, TRUE, <<action>>, NoError, <<action>>)

\* One action of Apply: Changed is set and the action listed before the
\* command runs (before == TRUE), or only after it succeeded (the upgrade).
PackageStep(o, action, after, dryRun, failed, before) ==
    IF dryRun THEN Res(o, TRUE, <<action>>, NoError, <<>>)
    ELSE IF failed THEN Res(o, before, <<action>>, "package command failed", <<action>>)
    ELSE Res(after, TRUE, <<action>>, NoError, <<action>>)

PackageFails == {"none", "query", "install", "remove", "upgrade"}

PackageApply(o, pkg, dryRun, fail) ==
    IF o.pm = "" THEN Res(o, FALSE, <<>>, "no supported package manager found", <<>>)
    ELSE LET q == isInstalled(o, pkg.Name, fail) IN
      CASE pkg.State = PackageStatePresent ->
             IF ~q.installed
             THEN PackageStep(o, <<o.pm, "install", pkg.Name>>,
                              PackageInstall(o, pkg.Name, pkg.Version),
                              dryRun, fail = "install", TRUE)
             ELSE IF pkg.Version # "" /\ q.version # pkg.Version
             THEN PackageStep(o, <<o.pm, "install", pkg.Name, pkg.Version>>,
                              PackageInstall(o, pkg.Name, pkg.Version),
                              dryRun, fail = "install", TRUE)
             ELSE Res(o, FALSE, <<>>, NoError, <<>>)
        [] pkg.State = PackageStateAbsent ->
             IF q.installed
             THEN PackageStep(o, <<o.pm, "remove", pkg.Name>>, PackageRemove(o, pkg.Name),
                              dryRun, fail = "remove", TRUE)
             ELSE Res(o, FALSE, <<>>, NoError, <<>>)
        [] pkg.State = PackageStateLatest ->
             IF ~q.installed
             THEN PackageStep(o, <<o.pm, "install", pkg.Name>>,
                              PackageInstall(o, pkg.Name, ""),
                              dryRun, fail = "install", TRUE)
             ELSE PackageStep(o, <<o.pm, "upgrade", pkg.Name>>, PackageUpgrade(o, pkg.Name),
                              dryRun, fail = "upgrade", FALSE)

\* PackageApplier.Check
PackageCheck(o, name) == isInstalled(o, name, "none")

(***************************************************************************)
(* FileApplier                                                             *)
(***************************************************************************)
NoFile == [exists |-> FALSE, content |-> "", perm |-> 0, owner |-> "", group |-> ""]

\* exists: os.Stat(path).
FileExists(o, path) == o.file[path].exists

\* getSHA256(path), for a file that can be read.
getSHA256(o, path) == SHA256Of(o.file[path].content)

\* needsContentUpdate: by hash when one is given, else by content; a read
\* that fails counts as "needs update".
needsContentUpdate(o, path, content, expectedSHA256, fail) ==
    IF fail = "read" \/ ~FileExists(o, path) THEN TRUE
    ELSE IF expectedSHA256 # "" THEN getSHA256(o, path) # expectedSHA256
    ELSE o.file[path].content # content

\* writeContent: os.WriteFile(path, content, 0644) creates the file with the
\* default bits and the caller's identity, and keeps those of a file that exists.
writeContent(o, path, content) ==
    IF FileExists(o, path)
    THEN [o EXCEPT !.file[path].content = content]
    ELSE [o EXCEPT !.file[path] = [exists |-> TRUE, content |-> content,
                                   perm |-> WriteFilePerm, owner |-> "root", group |-> "root"]]

\* getMode: the permission bits as a four-digit octal string.
getMode(o, path) == FormatMode(Perm(o.file[path].perm))

\* setMode: os.Chmod(path, os.FileMode(modeInt)), when it succeeds.
setMode(o, path, m) == [o EXCEPT !.file[path].perm = Perm(ParseUint8(m))]

\* setOwnership: chown owner:group path, when it succeeds.
setOwnership(o, path, owner, group) ==
    [o EXCEPT !.file[path].owner = owner, !.file[path].group = group]

\* "Handle content if specified"; exists is the answer of the call's one
\* existence check, r the call's result so far.
FileContentStep(r, file, exists, dryRun, fail) ==
    IF file.Content # ""
       /\ (~exists \/ needsContentUpdate(r.os, file.Path, file.Content, file.SHA256, fail))
    THEN LET action == <<"write content to", file.Path>>
             r1 == [r EXCEPT !.Changed = TRUE, !.Actions = Append(@, action)]
         IN  IF dryRun THEN r1
             ELSE IF fail = "write"
                  THEN [r1 EXCEPT !.Error = "failed to write content", !.muts = Append(@, action)]
             ELSE [r1 EXCEPT !.os = writeContent(@, file.Path, file.Content),
                             !.muts = Append(@, action)]
    ELSE r

\* "Handle permissions if specified"
FileModeStep(r, file, exists, dryRun, fail) ==
    IF file.Mode = "" THEN r
    ELSE LET err == fail = "getmode" \/ ~FileExists(r.os, file.Path)
             currentMode == IF err THEN "" ELSE getMode(r.os, file.Path)
             action == <<"chmod", file.Mode, file.Path>>
             r1 == [r EXCEPT !.Changed = TRUE, !.Actions = Append(@, action)]
         IN  IF err /\ exists THEN [r EXCEPT !.Error = "failed to get file mode"]
             ELSE IF exists /\ currentMode # file.Mode
             THEN IF dryRun THEN r1
                  ELSE IF ParseUint8(file.Mode) < 0
                       THEN [r1 EXCEPT !.Error = "failed to set mode"]
                  ELSE IF fail = "chmod"
                       THEN [r1 EXCEPT !.Error = "failed to set mode", !.muts = Append(@, action)]
                  ELSE [r1 EXCEPT !.os = setMode(@, file.Path, file.Mode),
                                  !.muts = Append(@, action)]
             ELSE r

\* "Handle ownership if specified"
FileOwnerStep(r, file, exists, dryRun, fail) ==
    IF file.Owner = "" /\ file.Group = "" THEN r
    ELSE LET err == fail = "getowner" \/ ~FileExists(r.os, file.Path)
             currentOwner == IF err THEN "" ELSE r.os.file[file.Path].owner
             currentGroup == IF err THEN "" ELSE r.os.file[file.Path].group
             owner == IF file.Owner = "" THEN "root" ELSE file.Owner
             group == IF file.Group = "" THEN "root" ELSE file.Group
             action == <<"chown", owner, group, file.Path>>
             r1 == [r EXCEPT !.Changed = TRUE, !.Actions = Append(@, action)]
         IN  IF err /\ exists THEN [r EXCEPT !.Error = "failed to get ownership"]
             ELSE IF exists /\ (currentOwner # owner \/ currentGroup # group)
             THEN IF dryRun THEN r1
                  ELSE IF fail = "chown"
                       THEN [r1 EXCEPT !.Error = "failed to set ownership",
                                       !.muts = Append(@, action)]
                  ELSE [r1 EXCEPT !.os = setOwnership(@, file.Path, owner, group),
                                  !.muts = Append(@, action)]
             ELSE r

FileFails == {"none", "stat", "read", "write", "getmode", "chmod", "getowner", "chown"}

FileApply(o, file, dryRun, fail) ==
    IF fail = "stat" THEN Res(o, FALSE, <<>>, "failed to check file existence", <<>>)
    ELSE LET exists == FileExists(o, file.Path)
             r1 == FileContentStep(Res(o, FALSE, <<>>, NoError, <<>>), file, exists, dryRun, fail)
             r2 == IF r1.Error # NoError THEN r1 ELSE FileModeStep(r1, file, exists, dryRun, fail)
         IN  IF r2.Error # NoError THEN r2 ELSE FileOwnerStep(r2, file, exists, dryRun, fail)

\* FileApplier.Check (exists, mode, owner, group, sha256sum)
FileCheck(o, path) ==
    IF ~FileExists(o, path) THEN <<FALSE, "", "", "", "">>
    ELSE <<TRUE, getMode(o, path), o.file[path].owner, o.file[path].group, getSHA256(o, path)>>

(***************************************************************************)
(* The node: resource identities and the live states they can be in.       *)
(***************************************************************************)
ServiceNames == {"nginx", "sshd"}
SysctlKeys == {"net.ipv4.ip_forward", "vm.swappiness"}
SysctlValues == {"0", "1", "1 "}
FirewallServices == {"ssh", "http"}
PackageNames == {"curl"}
PackageManagers == {"", "apt", "dnf", "yum"}
Versions == {"1.0", "2.0"}
Paths == {"/tmp/x"}
Contents == {"hello", "world"}
Perms == {420, 384}
Owners == {"root", "app"}

ServiceStates == [active : BOOLEAN, enabled : BOOLEAN]
FirewallStates == [installed : BOOLEAN, enabled : BOOLEAN, allowed : SUBSET FirewallServices]
PackageStates ==
    {[installed |-> FALSE, version |-> ""]} \cup [installed : {TRUE}, version : Versions]
FileStates ==
    {NoFile} \cup [exists : {TRUE}, content : Contents, perm : Perms,
                   owner : Owners, group : {"root"}]

\* A node on which nothing is running, installed or written yet.  audit is
\* the part of /var/log/audit/audit.log the auditd listener has not read:
\* the programs with an EXECVE record in it; it stays empty on a node that
\* does not audit executions.
BaseOS ==
    [svc    |-> [n \in ServiceNames |-> [active |-> FALSE, enabled |-> FALSE]],
     sysctl |-> [k \in SysctlKeys |-> "0"],
     fw     |-> [installed |-> TRUE, enabled |-> FALSE, allowed |-> {}],
     pm     |-> "apt",
     pkg    |-> [n \in PackageNames |-> [installed |-> FALSE, version |-> ""]],
     file   |-> [p \in Paths |-> NoFile],
     audit  |-> {}]

(***************************************************************************)
(* Desired specs                                                           *)
(***************************************************************************)
ServiceConfigs ==
    [Name : ServiceNames, State : {ServiceStateRunning, ServiceStateStopped}, Enabled : BOOLEAN]
FirewallConfigs ==
    [Enabled : BOOLEAN, AllowedServices : {<<>>, <<"ssh">>, <<"ssh", "http">>}]
PackageConfigs ==
    [Name : PackageNames,
     State : {PackageStatePresent, PackageStateAbsent, PackageStateLatest},
     Version : Versions \cup {""}]
\* Owner and Group: neither given, or the owner alone.
FileOwnerships == {<<"", "">>, <<"app", "">>}
FileConfigs ==
    {[Path |-> p, Content |-> c, SHA256 |-> h, Mode |-> m, Owner |-> og[1], Group |-> og[2]] :
        p \in Paths, c \in {"", "hello"}, h \in {"", SHA256Of("hello")},
        m \in {"", "0644", "0600", "644"}, og \in FileOwnerships}

(***************************************************************************)
(* Applier harness: one applier kind, any live state of its resources, any *)
(* sequence of Apply calls with any spec; nothing else touches the node.   *)
(***************************************************************************)
Kinds == {"service", "sysctl", "firewall", "package", "file"}

NoCall ==
    [kind |-> "none", spec |-> [none |-> TRUE], dryRun |-> FALSE, fail |-> "none",
     Changed |-> FALSE, Actions |-> <<>>, Error |-> NoError, muts |-> <<>>, pre |-> BaseOS]

\* The live states the resources of kind k can be in.
LiveStates(k) ==
    CASE k = "service"  -> {[BaseOS EXCEPT !.svc = s] : s \in [ServiceNames -> ServiceStates]}
      [] k = "sysctl"   -> {[BaseOS EXCEPT !.sysctl = s] : s \in [SysctlKeys -> SysctlValues]}
      [] k = "firewall" -> {[BaseOS EXCEPT !.fw = s] : s \in FirewallStates}
      [] k = "package"  -> {[BaseOS EXCEPT !.pm = m, !.pkg = s] :
                               m \in PackageManagers, s \in [PackageNames -> PackageStates]}
      [] k = "file"     -> {[BaseOS EXCEPT !.file = s] : s \in [Paths -> FileStates]}

Idle == [at |-> "idle", i |-> 0, keys |-> {}, held |-> <<>>]
\* What a call in progress has done so far: the entry point called, the event
\* it was given, the mode its caller's check read (gate), the mode
\* ReconcileAll's check read (entryMode), the ReconcileAll calls made, the
\* results gathered, the enforcer calls made and the error returned; state is
\* the snapshot the call was handed.
NoRun == [entry |-> "none", event |-> <<>>, gate |-> "none", entryMode |-> "none",
          passes |-> 0, results |-> <<>>, calls |-> <<>>, err |-> NoError,
          state |-> NoState]
\* The goroutines that call the Reconciler: the scheduler, the watcher's
\* consumer and the GitOps poller, and the HTTP server's, which serves
\* /metrics; Callers is the one that runs alone.
Goroutines == {"sched", "watch", "gitops", "http"}
Callers == {"sched"}
StateOf(p) == run[p].state

InitApply ==
    /\ kind \in Kinds
    /\ os \in LiveStates(kind)
    /\ last = NoCall
    /\ streak = 0
    /\ mode = ModeDisabled
    /\ state = [Services |-> <<>>, Sysctl |-> <<>>,
                Firewall |-> [Enabled |-> FALSE, AllowedServices |-> <<>>],
                Packages |-> <<>>, Files |-> <<>>]
    /\ pc = [p \in Goroutines |-> Idle]
    /\ run = [p \in Goroutines |-> NoRun]
    /\ used = [fails |-> 0, sets |-> 0, calls |-> 0, updates |-> 0, given |-> ModeDisabled]
    /\ Constructed /\ NotWatching /\ NotScheduled

\* One Apply call of the harness: Apply(fail) is the applier's answer when
\* the OS command fail fails during the call (a command the call never runs
\* cannot fail).  streak counts the calls in a row
\* (up to two) made with dryRun=false and the same spec, none of them with a
\* failing command, and with nothing else touching the node in between.
Called(k, spec, dryRun, fail, Apply(_)) ==
    \E r \in {Apply(fail)} :
    /\ fail # "none" => r # Apply("none")
    /\ os' = r.os
    /\ last' = [kind |-> k, spec |-> spec, dryRun |-> dryRun, fail |-> fail,
                Changed |-> r.Changed, Actions |-> r.Actions, Error |-> r.Error,
                muts |-> r.muts, pre |-> os]
    /\ streak' = IF dryRun \/ fail # "none" \/ r.Error # NoError THEN 0
                 ELSE IF streak >= 1 /\ last.spec = spec THEN 2
                 ELSE 1
    /\ UNCHANGED <<checkVars, watchVars, schedVars, kind, mode, state, pc, run, used>>

CallServiceApply ==
    /\ kind = "service"
    /\ \E svc \in ServiceConfigs, dryRun \in BOOLEAN, fail \in ServiceFails :
        Called("service", svc, dryRun, fail, LAMBDA f : ServiceApply(os, svc, dryRun, f))

CallSysctlApply ==
    /\ kind = "sysctl"
    /\ \E key \in SysctlKeys, value \in SysctlValues, dryRun \in BOOLEAN, fail \in SysctlFails :
        Called("sysctl", <<key, value>>, dryRun, fail,
               LAMBDA f : SysctlApply(os, key, value, dryRun, f))

CallFirewallApply ==
    /\ kind = "firewall"
    /\ \E fw \in FirewallConfigs, dryRun \in BOOLEAN, fail \in FirewallFails :
        Called("firewall", fw, dryRun, fail, LAMBDA f : FirewallApply(os, fw, dryRun, f))

CallPackageApply ==
    /\ kind = "package"
    /\ \E pkg \in PackageConfigs, dryRun \in BOOLEAN, fail \in PackageFails :
        Called("package", pkg, dryRun, fail, LAMBDA f : PackageApply(os, pkg, dryRun, f))

CallFileApply ==
    /\ kind = "file"
    /\ \E file \in FileConfigs, dryRun \in BOOLEAN, fail \in FileFails :
        Called("file", file, dryRun, fail, LAMBDA f : FileApply(os, file, dryRun, f))

NextApply ==
    \/ CallServiceApply
    \/ CallSysctlApply
    \/ CallFirewallApply
    \/ CallPackageApply
    \/ CallFileApply

SpecApply == InitApply /\ [][NextApply]_vars

(***************************************************************************)
(* Enforcers: one applier call wrapped into one ReconcileResult.           *)
(***************************************************************************)
\* A faulty variant of EnforcerResult: WasCompliant is set from Changed on the
\* error path too.
EnforcerResultCompliantOnError(type, name, m, a) ==
    LET result == [ResourceType |-> type, ResourceName |-> name, WasCompliant |-> ~a.Changed,
                   Action |-> <<>>, Error |-> NoError, DryRun |-> (m = ModeDryRun)]
    IN  IF a.Error # NoError THEN [result EXCEPT !.Error = a.Error]
        ELSE IF ~a.Changed THEN [result EXCEPT !.Action = << <<"compliant">> >>]
        ELSE [result EXCEPT !.Action = a.Actions]

\* A faulty variant of EnforcerResult: DryRun is set whenever the applier
\* was told not to mutate.
EnforcerResultDryRunUnlessEnforce(type, name, m, a) ==
    LET result == [ResourceType |-> type, ResourceName |-> name, WasCompliant |-> FALSE,
                   Action |-> <<>>, Error |-> NoError, DryRun |-> (m # ModeEnforce)]
    IN  IF a.Error # NoError THEN [result EXCEPT !.Error = a.Error]
        ELSE IF ~a.Changed
             THEN [result EXCEPT !.WasCompliant = TRUE, !.Action = << <<"compliant">> >>]
        ELSE [result EXCEPT !.Action = a.Actions]

\* The ReconcileResult an enforcer builds from its applier's result a; the
\* Action is the list of the applier's actions (joined into one string by
\* the code).
EnforcerResult(type, name, m, a) ==
    LET result == [ResourceType |-> type, ResourceName |-> name, WasCompliant |-> FALSE,
                   Action |-> <<>>, Error |-> NoError, DryRun |-> (m = ModeDryRun)]
    IN  IF a.Error # NoError THEN [result EXCEPT !.Error = a.Error]
        ELSE IF ~a.Changed
             THEN [result EXCEPT !.WasCompliant = TRUE, !.Action = << <<"compliant">> >>]
        ELSE [result EXCEPT !.Action = a.Actions]

\* What an enforcer call leaves: its result, the OS, the mode it was given
\* and the mutating commands it ran.
Enforced(type, name, m, a) ==
    [res |-> EnforcerResult(type, name, m, a), os |-> a.os, mode |-> m, muts |-> a.muts]

\* A faulty variant of DryRunOf: only the dry-run mode counts as a dry run.
DryRunOfDryRunOnly(m) == m = ModeDryRun

\* dryRun := (mode != ModeEnforce)
DryRunOf(m) == m # ModeEnforce

ServiceEnforcerReconcile(o, svc, m, fail) ==
    Enforced("service", svc.Name, m, ServiceApply(o, svc, DryRunOf(m), fail))

\* The sysctl enforcer reads the current value itself before it calls Apply.
SysctlEnforcerFails == SysctlFails \cup {"get current"}

SysctlEnforcerReconcile(o, key, expectedValue, m, fail) ==
    IF fail = "get current"
    THEN Enforced("sysctl", key, m, Res(o, FALSE, <<>>, "failed to get current value", <<>>))
    ELSE Enforced("sysctl", key, m, SysctlApply(o, key, expectedValue, DryRunOf(m), fail))

FirewallEnforcerReconcile(o, fw, m, fail) ==
    Enforced("firewall", "ufw", m, FirewallApply(o, fw, DryRunOf(m), fail))

PackageEnforcerReconcile(o, pkg, m, fail) ==
    Enforced("package", pkg.Name, m, PackageApply(o, pkg, DryRunOf(m), fail))

FileEnforcerReconcile(o, file, m, fail) ==
    Enforced("file", file.Path, m, FileApply(o, file, DryRunOf(m), fail))

(***************************************************************************)
(* Reconciler                                                              *)
(*                                                                         *)
(* A caller is a goroutine inside one call of the Reconciler; pc[p] is the *)
(* statement it stands at.  r.mode is a plain field: every enforcer call   *)
(* reads it again, and SetMode stores it with no synchronisation, so a     *)
(* store lands between any two statements of a call in progress.           *)
(***************************************************************************)
MaxFails == 1      \* OS commands that fail in one run
MaxSets == 1       \* SetMode calls in one run
MaxCalls == 2      \* calls of the Reconciler's entry points in one run

\* SetMode(m)
\* A faulty variant of SetMode: the mode disabled is not taken.
SetModeUnlessDisabled(m) ==
    /\ used.sets < MaxSets
    /\ mode' = IF m = ModeDisabled THEN mode ELSE m
    /\ used' = [used EXCEPT !.sets = @ + 1, !.given = m]
    /\ UNCHANGED <<checkVars, watchVars, schedVars, os, kind, last, streak, state, pc, run>>

\* SetMode(m); used.given keeps the mode last given to the Reconciler, by
\* NewReconciler or by SetMode.
SetMode(m) ==
    /\ used.sets < MaxSets
    /\ mode' = m
    /\ used' = [used EXCEPT !.sets = @ + 1, !.given = m]
    /\ UNCHANGED <<checkVars, watchVars, schedVars, os, kind, last, streak, state, pc, run>>

\* HealthCheck: the error it returns, refs being the enforcer references
\* that are not nil.
HealthCheck(refs) ==
    IF "service" \notin refs THEN "service enforcer not initialized"
    ELSE IF "sysctl" \notin refs THEN "sysctl enforcer not initialized"
    ELSE NoError

\* A call of HealthCheck, at any moment.
CallHealthCheck ==
    /\ used.calls < MaxCalls
    /\ health' = HealthCheck(enforcers)
    /\ used' = [used EXCEPT !.calls = @ + 1]
    /\ UNCHANGED <<watchVars, schedVars, os, kind, last, streak, mode, state, pc, run, enforcers,
                   sync>>

\* A faulty variant of GetMode: inside a ReconcileAll pass the mode read is
\* the one the pass read on its entry.
GetModeOfPass ==
    IF \E p \in DOMAIN run : run[p].entryMode \in {ModeDryRun, ModeEnforce}
    THEN run[CHOOSE p \in DOMAIN run : run[p].entryMode \in {ModeDryRun, ModeEnforce}].entryMode
    ELSE mode

\* GetMode, and every read of r.mode
GetMode == mode

Pos(at, i, keys) == [at |-> at, i |-> i, keys |-> keys, held |-> <<>>]
Done == Pos("done", 0, {})

\* Where ReconcileAll goes next: the first of files, packages, firewall,
\* sysctl, services (from the given one on) that the snapshot has work for.
FromFiles(st) == IF Len(st.Files) > 0 THEN Pos("file", 1, {}) ELSE Done
FromPackages(st) == IF Len(st.Packages) > 0 THEN Pos("pkg", 1, {}) ELSE FromFiles(st)
FromFirewall(st) ==
    IF st.Firewall.Enabled \/ Len(st.Firewall.AllowedServices) > 0
    THEN Pos("fw", 0, {}) ELSE FromPackages(st)
FromSysctl(st) ==
    IF DOMAIN st.Sysctl # {} THEN Pos("sysctl", 0, DOMAIN st.Sysctl) ELSE FromFirewall(st)
FromServices(st) == IF Len(st.Services) > 0 THEN Pos("svc", 1, {}) ELSE FromSysctl(st)

InAll(p) == run[p].entry \in {"ReconcileAll", "ReconcileEvent", "tick", "OnUpdate"}

\* The events the watcher hands to ReconcileEvent: type and resource name.
Events == {<<"file_modified", "/tmp/x">>, <<"unit_state_change", "nginx">>}

\* A call begins.
Begin(p, entry, event, at) ==
    /\ pc[p].at = "idle"
    /\ used.calls < MaxCalls
    /\ pc' = [pc EXCEPT ![p] = at]
    /\ run' = [run EXCEPT ![p] = [NoRun EXCEPT !.entry = entry, !.event = event,
                                                !.state = state]]
    /\ used' = [used EXCEPT !.calls = @ + 1]
    /\ UNCHANGED <<checkVars, watchVars, schedVars, os, kind, last, streak, mode, state>>

CallReconcileAll(p) == Begin(p, "ReconcileAll", <<>>, Pos("all", 0, {}))
CallReconcileEvent(p) ==
    \E ev \in Events : Begin(p, "ReconcileEvent", ev, Pos("event", 0, {}))

\* The scheduler's ticker fires.
CallTick(p) == Begin(p, "tick", <<>>, Pos("tick", 0, {}))

\* A faulty variant of Tick: ReconcileAll is called whatever GetMode()
\* returns.
TickUngated(p) ==
    /\ pc[p].at = "tick"
    /\ pc' = [pc EXCEPT ![p] = Pos("all", 0, {})]
    /\ run' = [run EXCEPT ![p].gate = GetMode]
    /\ UNCHANGED <<checkVars, watchVars, schedVars, os, kind, last, streak, mode, state, used>>

\* runPeriodicChecks, one tick: ReconcileAll is called unless GetMode()
\* returns disabled.
Tick(p) ==
    /\ pc[p].at = "tick"
    /\ \E m \in {GetMode} :
          /\ pc' = [pc EXCEPT ![p] = IF m # ModeDisabled THEN Pos("all", 0, {}) ELSE Done]
          /\ run' = [run EXCEPT ![p].gate = m]
    /\ UNCHANGED <<checkVars, watchVars, schedVars, os, kind, last, streak, mode, state, used>>

\* The per-kind entry points, called directly.
CallReconcileServices(p) ==
    Begin(p, "ReconcileServices", <<>>, IF Len(state.Services) > 0 THEN Pos("svc", 1, {}) ELSE Done)
CallReconcileSysctl(p) ==
    Begin(p, "ReconcileSysctl", <<>>,
          IF DOMAIN state.Sysctl # {} THEN Pos("sysctl", 0, DOMAIN state.Sysctl) ELSE Done)
CallReconcileFirewall(p) == Begin(p, "ReconcileFirewall", <<>>, Pos("fw", 0, {}))
CallReconcilePackages(p) ==
    Begin(p, "ReconcilePackages", <<>>, IF Len(state.Packages) > 0 THEN Pos("pkg", 1, {}) ELSE Done)
CallReconcileFiles(p) ==
    Begin(p, "ReconcileFiles", <<>>, IF Len(state.Files) > 0 THEN Pos("file", 1, {}) ELSE Done)

\* A faulty variant of ReconcileEvent: the mode is read, and not looked at.
ReconcileEventUngated(p) ==
    /\ pc[p].at = "event"
    /\ pc' = [pc EXCEPT ![p] = Pos("all", 0, {})]
    /\ run' = [run EXCEPT ![p].gate = GetMode]
    /\ UNCHANGED <<checkVars, watchVars, schedVars, os, kind, last, streak, mode, state, used>>

\* ReconcileEvent: returns nil when the mode is disabled, else calls ReconcileAll.
ReconcileEvent(p) ==
    /\ pc[p].at = "event"
    /\ \E m \in {GetMode} :
          /\ pc' = [pc EXCEPT ![p] = IF m = ModeDisabled THEN Done ELSE Pos("all", 0, {})]
          /\ run' = [run EXCEPT ![p].gate = m]
    /\ UNCHANGED <<checkVars, watchVars, schedVars, os, kind, last, streak, mode, state, used>>

\* A faulty variant of AllEntry: no mode check.
AllEntryUnchecked(m, st) == FromServices(st)

\* Where ReconcileAll goes from its mode check, the mode read being m.
AllEntry(m, st) == IF m = ModeDisabled THEN Done ELSE FromServices(st)

\* ReconcileAll: returns (nil, nil) when the mode is disabled.
ReconcileAll(p) ==
    /\ pc[p].at = "all"
    /\ \E m \in {GetMode} :
          /\ pc' = [pc EXCEPT ![p] = AllEntry(m, StateOf(p))]
          /\ run' = [run EXCEPT ![p].passes = @ + 1, ![p].entryMode = m]
    /\ UNCHANGED <<checkVars, watchVars, schedVars, os, kind, last, streak, mode, state, used>>

\* A faulty variant of Continue: the first error ends the call.
ContinueUnlessError(res, next) == IF res.Error # NoError THEN Done ELSE next

\* The loops of ReconcileServices, ReconcileSysctl, ReconcilePackages and
\* ReconcileFiles put an enforcer's error into its result, append the result
\* and go on; ReconcileAll logs an error of ReconcileFirewall and goes on.
Continue(res, next) == next

\* A faulty variant of Returned: every entry point hands the error on.
ReturnedError(entry, res) == res.Error

\* The error a call returns once the enforcer call with result res is made:
\* ReconcileFirewall returns its enforcer's error, the entry points that
\* return a list return nil, and ReconcileAll, which logs the errors it is
\* handed, returns nil (and with it ReconcileEvent).
Returned(entry, res) == IF entry = "ReconcileFirewall" THEN res.Error ELSE NoError

\* One enforcer call made by p, E(fail) with fail the OS command that fails in
\* it, after which p stands at next: the result is appended to the caller's
\* results.  A command the call never runs cannot fail.
Enforce(p, E(_), fail, next) ==
    \E e \in {E(fail)} :
    /\ fail # "none" => (used.fails < MaxFails /\ e # E("none"))
    /\ os' = e.os
    /\ run' = [run EXCEPT ![p].results = Append(@, e.res),
                          ![p].calls = Append(@, [type |-> e.res.ResourceType,
                                                  name |-> e.res.ResourceName,
                                                  mode |-> e.mode, muts |-> e.muts]),
                          ![p].err = Returned(run[p].entry, e.res)]
    /\ pc' = [pc EXCEPT ![p] = Continue(e.res, next)]
    /\ used' = [used EXCEPT !.fails = IF fail # "none" THEN @ + 1 ELSE @]
    /\ UNCHANGED <<checkVars, watchVars, schedVars, kind, last, streak, mode, state>>

\* The OS command that fails while the Reconciler runs, one for each kind: a
\* mutation after another one succeeded, a read, a mutation, a read that
\* then reads as "not installed", a mutation.
ServiceFaults == {"none", "enable"}
SysctlFaults == {"none", "get current"}
FirewallFaults == {"none", "ssh"}
PackageFaults == {"none", "query"}
FileFaults == {"none", "write"}

\* A faulty variant of ReconcileServices: the list is walked from its end.
ReconcileServicesBackwards(p) ==
    /\ pc[p].at = "svc"
    /\ \E m \in {GetMode}, fail \in ServiceFaults :
          LET i == pc[p].i
              n == Len(StateOf(p).Services)
              next == IF i < n THEN Pos("svc", i + 1, {})
                      ELSE IF InAll(p) THEN FromSysctl(StateOf(p)) ELSE Done
          IN  Enforce(p, LAMBDA f : ServiceEnforcerReconcile(os, StateOf(p).Services[n + 1 - i], m, f),
                      fail, next)

\* ReconcileServices: the next service of the list.
ReconcileServices(p) ==
    /\ pc[p].at = "svc"
    /\ \E m \in {GetMode}, fail \in ServiceFaults :
          LET i == pc[p].i
              next == IF i < Len(StateOf(p).Services) THEN Pos("svc", i + 1, {})
                      ELSE IF InAll(p) THEN FromSysctl(StateOf(p)) ELSE Done
          IN  Enforce(p, LAMBDA f : ServiceEnforcerReconcile(os, StateOf(p).Services[i], m, f),
                      fail, next)

\* ReconcileSysctl: ranges over the map, in no fixed order.
ReconcileSysctl(p) ==
    /\ pc[p].at = "sysctl"
    /\ \E key \in pc[p].keys, m \in {GetMode}, fail \in SysctlFaults :
          LET rest == pc[p].keys \ {key}
              next == IF rest # {} THEN Pos("sysctl", 0, rest)
                      ELSE IF InAll(p) THEN FromFirewall(StateOf(p)) ELSE Done
          IN  Enforce(p, LAMBDA f : SysctlEnforcerReconcile(os, key, StateOf(p).Sysctl[key], m, f),
                      fail, next)

ReconcileFirewall(p) ==
    /\ pc[p].at = "fw"
    /\ \E m \in {GetMode}, fail \in FirewallFaults :
          Enforce(p, LAMBDA f : FirewallEnforcerReconcile(os, StateOf(p).Firewall, m, f), fail,
                  IF InAll(p) THEN FromPackages(StateOf(p)) ELSE Done)

ReconcilePackages(p) ==
    /\ pc[p].at = "pkg"
    /\ \E m \in {GetMode}, fail \in PackageFaults :
          LET i == pc[p].i
              next == IF i < Len(StateOf(p).Packages) THEN Pos("pkg", i + 1, {})
                      ELSE IF InAll(p) THEN FromFiles(StateOf(p)) ELSE Done
          IN  Enforce(p, LAMBDA f : PackageEnforcerReconcile(os, StateOf(p).Packages[i], m, f),
                      fail, next)

ReconcileFiles(p) ==
    /\ pc[p].at = "file"
    /\ \E m \in {GetMode}, fail \in FileFaults :
          LET i == pc[p].i
              next == IF i < Len(StateOf(p).Files) THEN Pos("file", i + 1, {}) ELSE Done
          IN  Enforce(p, LAMBDA f : FileEnforcerReconcile(os, StateOf(p).Files[i], m, f),
                      fail, next)

\* The call has returned and its caller has taken the results.
Return(p) ==
    /\ pc[p].at = "done"
    /\ pc' = [pc EXCEPT ![p] = Idle]
    /\ run' = [run EXCEPT ![p] = NoRun]
    /\ UNCHANGED <<checkVars, watchVars, schedVars, os, kind, last, streak, mode, state, used>>

(***************************************************************************)
(* The agent: a node, a snapshot, a mode, and callers of the Reconciler.   *)
(***************************************************************************)
Nginx == [Name |-> "nginx", State |-> ServiceStateRunning, Enabled |-> TRUE]
Sshd == [Name |-> "sshd", State |-> ServiceStateStopped, Enabled |-> FALSE]
Curl == [Name |-> "curl", State |-> PackageStatePresent, Version |-> ""]
TmpX == [Path |-> "/tmp/x", Content |-> "hello", SHA256 |-> "", Mode |-> "0600",
         Owner |-> "", Group |-> ""]
NoFirewall == [Enabled |-> FALSE, AllowedServices |-> <<>>]
NoSysctl == [k \in {} |-> "0"]

\* Snapshots: one resource of every kind; nothing at all; two services and
\* two sysctl keys; a firewall with rules but not enabled, a package kept at
\* the latest version and two files.
FullSnapshot ==
    [Services |-> <<Nginx>>,
     Sysctl |-> [k \in {"net.ipv4.ip_forward"} |-> "1"],
     Firewall |-> [Enabled |-> TRUE, AllowedServices |-> <<"ssh">>],
     Packages |-> <<Curl>>,
     Files |-> <<TmpX>>]
EmptySnapshot ==
    [Services |-> <<>>, Sysctl |-> NoSysctl, Firewall |-> NoFirewall,
     Packages |-> <<>>, Files |-> <<>>]
ServicesSnapshot ==
    [Services |-> <<Sshd, Nginx>>,
     Sysctl |-> [k \in SysctlKeys |-> IF k = "vm.swappiness" THEN "0" ELSE "1"],
     Firewall |-> NoFirewall, Packages |-> <<>>, Files |-> <<>>]
RulesSnapshot ==
    [Services |-> <<>>, Sysctl |-> NoSysctl,
     Firewall |-> [Enabled |-> FALSE, AllowedServices |-> <<"ssh">>],
     Packages |-> <<[Curl EXCEPT !.State = PackageStateLatest]>>,
     Files |-> <<[TmpX EXCEPT !.Mode = "0644"], [TmpX EXCEPT !.Content = ""]>>]

\* A node that drifted from every snapshot above in some resource.
DriftedOS ==
    [svc    |-> [n \in ServiceNames |-> [active |-> (n = "sshd"), enabled |-> (n = "sshd")]],
     sysctl |-> [k \in SysctlKeys |-> IF k = "vm.swappiness" THEN "1 " ELSE "0"],
     fw     |-> [installed |-> TRUE, enabled |-> TRUE, allowed |-> {}],
     pm     |-> "apt",
     pkg    |-> [n \in PackageNames |-> [installed |-> TRUE, version |-> "1.0"]],
     file   |-> [p \in Paths |-> [exists |-> TRUE, content |-> "world", perm |-> 420,
                                  owner |-> "app", group |-> "root"]],
     audit  |-> {}]

\* A node with neither ufw nor a package manager.
BareOS == [BaseOS EXCEPT !.fw.installed = FALSE, !.pm = ""]

\* The nodes the agent starts on, each with the snapshot it is to keep.
Nodes ==
    { <<BaseOS, FullSnapshot>>, <<BareOS, FullSnapshot>>,
      <<DriftedOS, EmptySnapshot>>, <<DriftedOS, ServicesSnapshot>>,
      <<BaseOS, RulesSnapshot>> }

Init ==
    /\ \E n \in Nodes : os = n[1] /\ state = n[2]
    /\ kind = "none"
    /\ last = NoCall
    /\ streak = 0
    /\ mode \in Modes
    /\ pc = [p \in Goroutines |-> Idle]
    /\ run = [p \in Goroutines |-> NoRun]
    /\ used = [fails |-> 0, sets |-> 0, calls |-> 0, updates |-> 0, given |-> mode]
    /\ Constructed /\ NotWatching /\ NotScheduled

Next ==
    \/ \E m \in Modes : SetMode(m)
    \/ CallHealthCheck
    \/ \E p \in Callers :
          \/ CallReconcileAll(p)
          \/ CallReconcileEvent(p)
          \/ CallTick(p)
          \/ CallReconcileServices(p)
          \/ CallReconcileSysctl(p)
          \/ CallReconcileFirewall(p)
          \/ CallReconcilePackages(p)
          \/ CallReconcileFiles(p)
          \/ ReconcileEvent(p)
          \/ Tick(p)
          \/ ReconcileAll(p)
          \/ ReconcileServices(p)
          \/ ReconcileSysctl(p)
          \/ ReconcileFirewall(p)
          \/ ReconcilePackages(p)
          \/ ReconcileFiles(p)
          \/ Return(p)

Spec == Init /\ [][Next]_vars

\* A Reconciler with any of its enforcer references nil, as a struct
\* literal inside the package builds it; HealthCheck and SetMode are the
\* calls that do not go through a reference.
InitHealth ==
    /\ os = BaseOS /\ state = EmptySnapshot
    /\ kind = "none"
    /\ last = NoCall
    /\ streak = 0
    /\ mode \in Modes
    /\ pc = [p \in Goroutines |-> Idle]
    /\ run = [p \in Goroutines |-> NoRun]
    /\ used = [fails |-> 0, sets |-> 0, calls |-> 0, updates |-> 0, given |-> mode]
    /\ enforcers \in SUBSET EnforcerRefs /\ health = "none" /\ sync = NoSync
    /\ NotWatching /\ NotScheduled

NextHealth ==
    \/ \E m \in Modes : SetMode(m)
    \/ CallHealthCheck

SpecHealth == InitHealth /\ [][NextHealth]_vars

(***************************************************************************)
(* EventWatcher                                                            *)
(*                                                                         *)
(* Start launches processEvents and one listener goroutine per enabled     *)
(* source; a listener turns what its source reports into Events and sends  *)
(* them into eventChan, processEvents receives and handles them.  Stop     *)
(* cancels the context, waits for the WaitGroup and closes eventChan.      *)
(* An Event is told from every other by id, which stands for its           *)
(* Timestamp and payload.                                                  *)
(***************************************************************************)
QueueCap == 2      \* capacity of eventChan (100 in NewEventWatcher), scaled
MaxEvents == 3     \* events the sources report in one run
MaxBatch == 2      \* entries one journal wake-up or one audit-log scan yields

EventFileModified == "file_modified"
EventServiceLog == "service_log"
EventCommandExecuted == "command_executed"
EventUnitStateChange == "unit_state_change"

\* The commands the audit listener is configured to watch.
AuditCommands == <<"systemctl", "ls", "apt-get">>

\* The Event a listener makes of what its source reports.
EventOf(l, id) ==
    CASE l = "inotify"  -> [Type |-> EventFileModified, Source |-> l, Name |-> "/tmp/x", id |-> id]
      [] l = "journald" -> [Type |-> EventUnitStateChange, Source |-> l, Name |-> "nginx.service",
                            id |-> id]
      [] l = "auditd"   -> [Type |-> EventCommandExecuted, Source |-> l,
                            Name |-> AuditCommands[(id % Len(AuditCommands)) + 1], id |-> id]
      [] l = "dbus"     -> [Type |-> EventUnitStateChange, Source |-> l, Name |-> "nginx.service",
                            id |-> id]

\* A faulty variant of affectsMonitoredState: the command has to be one of
\* the listed ones, letter for letter.
affectsMonitoredStateExact(command) ==
    \E cmd \in {"systemctl", "sysctl", "ufw", "firewall-cmd", "apt", "yum", "dnf"} : command = cmd

\* affectsMonitoredState: strings.Contains(command, cmd) for one of the
\* listed commands.
affectsMonitoredState(command) ==
    \E cmd \in {"systemctl", "sysctl", "ufw", "firewall-cmd", "apt", "yum", "dnf"} :
        Contains(Chars(command), Chars(cmd))

\* handleEvent: the ReconcileEvent call it makes (event type, resource
\* name), <<>> when it makes none.
handleEvent(event, reconciler) ==
    CASE event.Type = EventFileModified ->
             IF reconciler THEN <<event.Type, event.Name>> ELSE <<>>
      [] event.Type = EventServiceLog -> <<>>
      [] event.Type = EventCommandExecuted ->
             IF reconciler /\ affectsMonitoredState(event.Name)
             THEN <<event.Type, event.Name>> ELSE <<>>
      [] event.Type = EventUnitStateChange ->
             IF reconciler THEN <<event.Type, event.Name>> ELSE <<>>
      [] OTHER -> <<>>

Exited(r) ==
    /\ routine' = [routine EXCEPT ![r] = [at |-> "exited", event |-> NoEvent, batch |-> 0]]
    /\ watcher' = [watcher EXCEPT !.wg = @ - 1]

\* Start: the context, then the goroutines.
Start ==
    /\ watcher.ctx = "none"
    /\ IF ~watcher.config.Enabled
       THEN /\ watcher' = [watcher EXCEPT !.ctx = "live",
                                          !.start = "watchers are disabled in config"]
            /\ UNCHANGED routine
       ELSE /\ watcher' = [watcher EXCEPT !.ctx = "live", !.start = NoError,
                                          !.wg = 1 + Cardinality(watcher.config.Listeners)]
            /\ routine' = [r \in Routines |->
                             IF r = "processEvents" THEN [routine[r] EXCEPT !.at = "select"]
                             ELSE IF r \in watcher.config.Listeners
                                  THEN [routine[r] EXCEPT !.at = "setup"]
                             ELSE routine[r]]
    /\ UNCHANGED <<checkVars, schedVars, os, kind, last, streak, mode, state, pc, run, used, trail>>

\* Stop, first half: cancel.
StopCancel ==
    /\ watcher.ctx = "live" /\ watcher.stop = "none"
    /\ watcher' = [watcher EXCEPT !.ctx = "cancelled", !.stop = "waiting"]
    /\ UNCHANGED <<checkVars, schedVars, os, kind, last, streak, mode, state, pc, run, used,
                   routine, trail>>

\* A faulty variant of StopReturn: the queue is closed without waiting for
\* the goroutines.
StopReturnNoWait ==
    /\ watcher.stop = "waiting"
    /\ watcher' = [watcher EXCEPT !.closed = TRUE, !.stop = "returned"]
    /\ UNCHANGED <<checkVars, schedVars, os, kind, last, streak, mode, state, pc, run, used,
                   routine, trail>>

\* Stop, second half: wg.Wait() returns, eventChan is closed, Stop returns.
StopReturn ==
    /\ watcher.stop = "waiting" /\ watcher.wg = 0
    /\ watcher' = [watcher EXCEPT !.closed = TRUE, !.stop = "returned"]
    /\ UNCHANGED <<checkVars, schedVars, os, kind, last, streak, mode, state, pc, run, used,
                   routine, trail>>

\* A listener opens its source: it goes on to its loop, or returns at once
\* (nothing configured to watch, or the source cannot be opened).
ListenerSetup(l) ==
    /\ routine[l].at = "setup"
    /\ \/ /\ routine' = [routine EXCEPT ![l].at = "loop"]
          /\ UNCHANGED watcher
       \/ Exited(l)
    /\ UNCHANGED <<checkVars, schedVars, os, kind, last, streak, mode, state, pc, run, used, trail>>

\* The listener l makes the next Event and stands at its send.
Made(l, more) ==
    /\ routine' = [routine EXCEPT ![l] = [at |-> "send", event |-> EventOf(l, trail.made + 1),
                                          batch |-> more]]
    /\ trail' = [trail EXCEPT !.made = @ + 1]

\* The sources report: one file event to the inotify listener and one signal
\* to the dbus listener, which select on their source and on the context; up to MaxBatch entries to the
\* journald listener, which looks at the context only before it waits for
\* entries; up to MaxBatch matching lines to the auditd listener on a tick
\* of its ticker, which it selects together with the context.
Reported(l) ==
    /\ routine[l].at = "loop"
    /\ l = "journald" => watcher.ctx # "cancelled"
    /\ \E n \in 1..MaxBatch :
          /\ l \in {"inotify", "dbus"} => n = 1
          /\ trail.made + n <= MaxEvents
          /\ Made(l, n - 1)
    /\ UNCHANGED <<checkVars, schedVars, os, kind, last, streak, mode, state, pc, run, used,
                   watcher>>

\* A faulty variant of Send: on a full queue the oldest event makes room.
SendOverwriting(l) ==
    /\ routine[l].at = "send"
    /\ ~watcher.closed
    /\ watcher' = [watcher EXCEPT !.eventChan =
                      IF Len(@) < QueueCap THEN Append(@, routine[l].event)
                      ELSE Append(Tail(@), routine[l].event)]
    /\ IF routine[l].batch > 0
       THEN /\ routine' = [routine EXCEPT ![l] = [at |-> "send",
                                                  event |-> EventOf(l, trail.made + 1),
                                                  batch |-> routine[l].batch - 1]]
            /\ trail' = [trail EXCEPT !.made = @ + 1,
                                      !.queued = Append(@, routine[l].event.id)]
       ELSE /\ routine' = [routine EXCEPT ![l] = [at |-> "loop", event |-> NoEvent, batch |-> 0]]
            /\ trail' = [trail EXCEPT !.queued = Append(@, routine[l].event.id)]
    /\ UNCHANGED <<checkVars, schedVars, os, kind, last, streak, mode, state, pc, run, used>>

\* w.eventChan <- event: the send blocks while the queue is full; after it
\* the listener takes the next entry of its batch or goes back to its loop.
Send(l) ==
    /\ routine[l].at = "send"
    /\ Len(watcher.eventChan) < QueueCap /\ ~watcher.closed
    /\ watcher' = [watcher EXCEPT !.eventChan = Append(@, routine[l].event)]
    /\ IF routine[l].batch > 0
       THEN /\ routine' = [routine EXCEPT ![l] = [at |-> "send",
                                                  event |-> EventOf(l, trail.made + 1),
                                                  batch |-> routine[l].batch - 1]]
            /\ trail' = [trail EXCEPT !.made = @ + 1,
                                      !.queued = Append(@, routine[l].event.id)]
       ELSE /\ routine' = [routine EXCEPT ![l] = [at |-> "loop", event |-> NoEvent, batch |-> 0]]
            /\ trail' = [trail EXCEPT !.queued = Append(@, routine[l].event.id)]
    /\ UNCHANGED <<checkVars, schedVars, os, kind, last, streak, mode, state, pc, run, used>>

\* case <-w.ctx.Done() of a listener's loop
ListenerDone(l) ==
    /\ routine[l].at = "loop" /\ watcher.ctx = "cancelled"
    /\ Exited(l)
    /\ UNCHANGED <<checkVars, schedVars, os, kind, last, streak, mode, state, pc, run, used, trail>>

\* A faulty variant of Receive: the next event is taken while the previous
\* one is still being handled.
ReceiveEager ==
    /\ routine["processEvents"].at \in {"select", "handle"}
    /\ watcher.eventChan # <<>>
    /\ routine' = [routine EXCEPT !["processEvents"] =
                      [at |-> "handle", event |-> Head(watcher.eventChan), batch |-> 0]]
    /\ watcher' = [watcher EXCEPT !.eventChan = Tail(@)]
    /\ UNCHANGED <<checkVars, schedVars, os, kind, last, streak, mode, state, pc, run, used, trail>>

\* processEvents, case event := <-w.eventChan
Receive ==
    /\ routine["processEvents"].at = "select"
    /\ watcher.eventChan # <<>>
    /\ routine' = [routine EXCEPT !["processEvents"] =
                      [at |-> "handle", event |-> Head(watcher.eventChan), batch |-> 0]]
    /\ watcher' = [watcher EXCEPT !.eventChan = Tail(@)]
    /\ UNCHANGED <<checkVars, schedVars, os, kind, last, streak, mode, state, pc, run, used, trail>>

\* processEvents, w.handleEvent(event)
Handle ==
    /\ routine["processEvents"].at = "handle"
    /\ trail' = [trail EXCEPT !.handled =
                    Append(@, [id |-> routine["processEvents"].event.id,
                               call |-> handleEvent(routine["processEvents"].event,
                                                    watcher.reconciler)])]
    /\ routine' = [routine EXCEPT !["processEvents"] = [at |-> "select", event |-> NoEvent,
                                                        batch |-> 0]]
    /\ UNCHANGED <<checkVars, schedVars, os, kind, last, streak, mode, state, pc, run, used,
                   watcher>>

\* processEvents, case <-w.ctx.Done()
ConsumerDone ==
    /\ routine["processEvents"].at = "select" /\ watcher.ctx = "cancelled"
    /\ Exited("processEvents")
    /\ UNCHANGED <<checkVars, schedVars, os, kind, last, streak, mode, state, pc, run, used, trail>>

\* An EventWatcher as NewEventWatcher builds it, with any configuration.
InitWatch ==
    /\ os = BaseOS /\ state = EmptySnapshot
    /\ kind = "none"
    /\ last = NoCall
    /\ streak = 0
    /\ mode = ModeDryRun
    /\ pc = [p \in Goroutines |-> Idle]
    /\ run = [p \in Goroutines |-> NoRun]
    /\ used = [fails |-> 0, sets |-> 0, calls |-> 0, updates |-> 0, given |-> mode]
    /\ Constructed /\ NotScheduled
    /\ \E enabled \in BOOLEAN, ls \in SUBSET Listeners, rec \in BOOLEAN :
          watcher = [NoWatcher EXCEPT !.config = [Enabled |-> enabled, Listeners |-> ls],
                                      !.reconciler = rec, !.state = state]
    /\ routine = NoRoutines
    /\ trail = NoTrail

NextWatch ==
    \/ Start
    \/ StopCancel
    \/ StopReturn
    \/ Receive
    \/ Handle
    \/ ConsumerDone
    \/ \E l \in Listeners :
          \/ ListenerSetup(l)
          \/ Reported(l)
          \/ Send(l)
          \/ ListenerDone(l)

SpecWatch == InitWatch /\ [][NextWatch]_vars

\* The Go scheduler runs every goroutine that can take a step, and a select
\* with several ready cases picks each of them sooner or later; what the
\* sources report and whether Stop is called is up to the environment.
FairSpecWatch ==
    /\ SpecWatch
    /\ WF_vars(StopReturn) /\ WF_vars(Receive) /\ WF_vars(Handle)
    /\ SF_vars(ConsumerDone)
    /\ \A l \in Listeners :
          WF_vars(ListenerSetup(l)) /\ WF_vars(Send(l)) /\ SF_vars(ListenerDone(l))



(***************************************************************************)
(* The consumer alone: a started watcher with no listener, and in its      *)
(* queue events of any type, those no listener of this build makes         *)
(* included.                                                               *)
(***************************************************************************)
AnyEvents ==
    {[Type |-> EventFileModified, Source |-> "inotify", Name |-> "/tmp/x", id |-> 0],
     [Type |-> EventServiceLog, Source |-> "journald", Name |-> "nginx.service", id |-> 0],
     [Type |-> EventUnitStateChange, Source |-> "journald", Name |-> "nginx.service", id |-> 0]}
    \cup {[Type |-> EventCommandExecuted, Source |-> "auditd", Name |-> AuditCommands[i], id |-> 0] :
             i \in DOMAIN AuditCommands}

InitConsume ==
    /\ os = BaseOS /\ state = EmptySnapshot
    /\ kind = "none"
    /\ last = NoCall
    /\ streak = 0
    /\ mode = ModeDryRun
    /\ pc = [p \in Goroutines |-> Idle]
    /\ run = [p \in Goroutines |-> NoRun]
    /\ used = [fails |-> 0, sets |-> 0, calls |-> 0, updates |-> 0, given |-> mode]
    /\ Constructed /\ NotScheduled
    /\ \E n \in 1..QueueCap, rec \in BOOLEAN : \E events \in [1..n -> AnyEvents] :
          /\ watcher = [NoWatcher EXCEPT !.config = [Enabled |-> TRUE, Listeners |-> {}],
                                         !.reconciler = rec, !.state = state,
                                         !.eventChan = [i \in 1..n |-> [events[i] EXCEPT !.id = i]],
                                         !.ctx = "live", !.start = NoError, !.wg = 1]
          /\ trail = [made |-> n, queued |-> [i \in 1..n |-> i], handled |-> <<>>]
    /\ routine = [NoRoutines EXCEPT !["processEvents"].at = "select"]

NextConsume ==
    \/ Receive
    \/ Handle
    \/ StopCancel
    \/ ConsumerDone
    \/ StopReturn

SpecConsume == InitConsume /\ [][NextConsume]_vars

(***************************************************************************)
(* The scheduler: runPeriodicChecks, one goroutine.  A cycle is one        *)
(* Collector check, one read of the mode and, unless it is disabled, one   *)
(* ReconcileAll; the first cycle runs at once, the others on the ticker.   *)
(***************************************************************************)
MaxTicks == 1      \* ticks of the ticker in one run

\* The gauge checkServices stores for one service: `systemctl is-active`
\* ends without error only when it prints "active"; failed says that the
\* command could not be run at all.
ServiceGauge(o, svc, failed) ==
    IF ~failed /\ isServiceActive(o, svc.Name) /\ svc.State = ServiceStateRunning
    THEN 1 ELSE 0

\* The gauge checkSysctl stores for one key.
SysctlGauge(o, key, expectedValue, failed) ==
    IF ~failed /\ TrimSpace(o.sysctl[key]) = expectedValue THEN 1 ELSE 0

\* Collector.checkServices and checkSysctl: the compliance metrics.
checkServices(o, services) ==
    [key \in {<<"service_compliant", services[i].Name>> : i \in DOMAIN services} |->
        IF \E i \in DOMAIN services :
               services[i].Name = key[2] /\ ServiceGauge(o, services[i], FALSE) = 1
        THEN 1 ELSE 0]
checkSysctl(o, params) ==
    [key \in {<<"sysctl_compliant", k>> : k \in DOMAIN params} |->
        SysctlGauge(o, key[2], params[key[2]], FALSE)]

\* c.metrics[key] = MetricValue{Value: value}
SetGauge(metrics, key, value) ==
    [k \in DOMAIN metrics \cup {key} |-> IF k = key THEN value ELSE metrics[k]]

\* Collector.CheckAndUpdate: the metrics map after it.
CheckAndUpdate(metrics, o, st) ==
    LET svc == checkServices(o, st.Services)
        sys == checkSysctl(o, st.Sysctl)
        keys == DOMAIN metrics \cup DOMAIN svc \cup DOMAIN sys
    IN  [key \in keys |-> IF key \in DOMAIN sys THEN sys[key]
                          ELSE IF key \in DOMAIN svc THEN svc[key]
                          ELSE metrics[key]]

\* go runPeriodicChecks(...): the ticker is made
SchedStart ==
    /\ sched.at = "off"
    /\ sched' = [sched EXCEPT !.at = "check", !.state = state]
    /\ UNCHANGED <<checkVars, watchVars, os, kind, last, streak, mode, state, pc, run, used>>

\* collector.CheckAndUpdate(state), of the initial cycle and of a tick's
SchedCheck(p) ==
    /\ sched.at = "check" /\ pc[p].at = "idle"
    /\ sched' = [sched EXCEPT !.at = "cycle", !.checks = @ + 1,
                              !.metrics = CheckAndUpdate(@, os, sched.state)]
    /\ pc' = [pc EXCEPT ![p] = Pos("tick", 0, {})]
    /\ run' = [run EXCEPT ![p] = [NoRun EXCEPT !.entry = "tick", !.state = sched.state]]
    /\ UNCHANGED <<checkVars, watchVars, os, kind, last, streak, mode, state, used>>

\* The cycle is over: the scheduler is back at its select.  cycles keeps,
\* for every cycle, the ticks received before it, the mode it read, the
\* ReconcileAll calls it made and whether the context was cancelled by then.
SchedCycleEnd(p) ==
    /\ sched.at = "cycle" /\ pc[p].at = "done"
    /\ sched' = [sched EXCEPT !.at = "select",
                              !.cycles = Append(@, [ticks |-> sched.ticks, gate |-> run[p].gate,
                                                    passes |-> run[p].passes,
                                                    cancelled |-> sched.cancelled])]
    /\ pc' = [pc EXCEPT ![p] = Idle]
    /\ run' = [run EXCEPT ![p] = NoRun]
    /\ UNCHANGED <<checkVars, watchVars, os, kind, last, streak, mode, state, used>>

\* case <-ticker.C
SchedTick ==
    /\ sched.at = "select" /\ sched.ticks < MaxTicks
    /\ sched' = [sched EXCEPT !.at = "check", !.ticks = @ + 1]
    /\ UNCHANGED <<checkVars, watchVars, os, kind, last, streak, mode, state, pc, run, used>>

\* The context of the scheduler is cancelled.
SchedCancel ==
    /\ sched.at # "off" /\ ~sched.cancelled
    /\ sched' = [sched EXCEPT !.cancelled = TRUE]
    /\ UNCHANGED <<checkVars, watchVars, os, kind, last, streak, mode, state, pc, run, used>>

\* A faulty variant of SchedDone: the loop returns wherever it stands.
SchedDoneAnywhere ==
    /\ sched.at \in {"check", "cycle", "select"} /\ sched.cancelled
    /\ sched' = [sched EXCEPT !.at = "exited"]
    /\ UNCHANGED <<checkVars, watchVars, os, kind, last, streak, mode, state, pc, run, used>>

\* case <-ctx.Done()
SchedDone ==
    /\ sched.at = "select" /\ sched.cancelled
    /\ sched' = [sched EXCEPT !.at = "exited"]
    /\ UNCHANGED <<checkVars, watchVars, os, kind, last, streak, mode, state, pc, run, used>>

InitSched ==
    /\ \E n \in Nodes : os = n[1] /\ state = n[2]
    /\ kind = "none"
    /\ last = NoCall
    /\ streak = 0
    /\ mode \in Modes
    /\ pc = [p \in Goroutines |-> Idle]
    /\ run = [p \in Goroutines |-> NoRun]
    /\ used = [fails |-> 0, sets |-> 0, calls |-> 0, updates |-> 0, given |-> mode]
    /\ Constructed /\ NotWatching /\ NotScheduled

NextSched ==
    \/ \E m \in Modes : SetMode(m)
    \/ SchedStart
    \/ SchedTick
    \/ SchedCancel
    \/ SchedDone
    \/ \E p \in Callers :
          \/ SchedCheck(p)
          \/ Tick(p)
          \/ ReconcileAll(p)
          \/ ReconcileServices(p)
          \/ ReconcileSysctl(p)
          \/ ReconcileFirewall(p)
          \/ ReconcilePackages(p)
          \/ ReconcileFiles(p)
          \/ SchedCycleEnd(p)

SpecSched == InitSched /\ [][NextSched]_vars

\* main, with the event watchers disabled in the configuration: it starts
\* runPeriodicChecks and waits for SIGINT or SIGTERM,
Signal ==
    /\ sched.at # "off" /\ sched.proc = "running"
    /\ sched' = [sched EXCEPT !.proc = "shutdown"]
    /\ UNCHANGED <<checkVars, watchVars, os, kind, last, streak, mode, state, pc, run, used>>

\* shuts the HTTP server down and returns: the process ends, and every
\* goroutine with it, wherever it stands.
MainReturn ==
    /\ sched.proc = "shutdown"
    /\ sched' = [sched EXCEPT !.proc = "exited", !.cancelled = TRUE, !.at = "killed"]
    /\ pc' = [p \in Goroutines |-> IF pc[p].at \in {"idle", "done"} THEN pc[p]
                                 ELSE [pc[p] EXCEPT !.at = "killed"]]
    /\ UNCHANGED <<checkVars, watchVars, os, kind, last, streak, mode, state, run, used>>

NextMain ==
    \/ \E m \in Modes : SetMode(m)
    \/ SchedStart
    \/ SchedTick
    \/ Signal
    \/ MainReturn
    \/ \E p \in Callers :
          \/ SchedCheck(p)
          \/ Tick(p)
          \/ ReconcileAll(p)
          \/ ReconcileServices(p)
          \/ ReconcileSysctl(p)
          \/ ReconcileFirewall(p)
          \/ ReconcilePackages(p)
          \/ ReconcileFiles(p)
          \/ SchedCycleEnd(p)

SpecMain == InitSched /\ [][NextMain]_vars

(***************************************************************************)
(* The Collector's gauges, written by the scheduler's CheckAndUpdate one   *)
(* map entry at a time and read by the /metrics handler of the HTTP        *)
(* server, which ranges over the same map in its own goroutine.  The agent *)
(* runs with reconciliation disabled, its default.                         *)
(***************************************************************************)
\* CheckAndUpdate begins: checkServices, then checkSysctl.
CheckBegin(p) ==
    /\ sched.at = "check" /\ pc[p].at = "idle"
    /\ sched' = [sched EXCEPT !.at = "checking"]
    /\ pc' = [pc EXCEPT ![p] =
                 IF Len(sched.state.Services) > 0 THEN Pos("checkServices", 1, {})
                 ELSE Pos("checkSysctl", 0, DOMAIN sched.state.Sysctl)]
    /\ UNCHANGED <<checkVars, watchVars, os, kind, last, streak, mode, state, run, used>>

\* checkServices, one turn of its loop
CheckService(p) ==
    /\ sched.at = "checking" /\ pc[p].at = "checkServices"
    /\ \E failed \in BOOLEAN :
          /\ failed => used.fails < MaxFails
          /\ sched' = [sched EXCEPT !.metrics =
                           SetGauge(@, <<"service_compliant", sched.state.Services[pc[p].i].Name>>,
                                    ServiceGauge(os, sched.state.Services[pc[p].i], failed))]
          /\ used' = [used EXCEPT !.fails = IF failed THEN @ + 1 ELSE @]
    /\ pc' = [pc EXCEPT ![p] =
                 IF pc[p].i < Len(sched.state.Services) THEN Pos("checkServices", pc[p].i + 1, {})
                 ELSE Pos("checkSysctl", 0, DOMAIN sched.state.Sysctl)]
    /\ UNCHANGED <<checkVars, watchVars, os, kind, last, streak, mode, state, run>>

\* checkSysctl, one turn of its loop, the keys in the order the map yields
CheckSysctlKey(p) ==
    /\ sched.at = "checking" /\ pc[p].at = "checkSysctl"
    /\ \E key \in pc[p].keys, failed \in BOOLEAN :
          /\ failed => used.fails < MaxFails
          /\ sched' = [sched EXCEPT !.metrics =
                           SetGauge(@, <<"sysctl_compliant", key>>,
                                    SysctlGauge(os, key, sched.state.Sysctl[key], failed))]
          /\ used' = [used EXCEPT !.fails = IF failed THEN @ + 1 ELSE @]
          /\ pc' = [pc EXCEPT ![p].keys = @ \ {key}]
    /\ UNCHANGED <<checkVars, watchVars, os, kind, last, streak, mode, state, run>>

\* CheckAndUpdate returns nil; GetMode is next.
CheckEnd(p) ==
    /\ sched.at = "checking" /\ pc[p].at = "checkSysctl" /\ pc[p].keys = {}
    /\ sched' = [sched EXCEPT !.at = "cycle", !.checks = @ + 1]
    /\ pc' = [pc EXCEPT ![p] = Pos("tick", 0, {})]
    /\ run' = [run EXCEPT ![p] = [NoRun EXCEPT !.entry = "tick", !.state = sched.state]]
    /\ UNCHANGED <<checkVars, watchVars, os, kind, last, streak, mode, state, used>>

\* GET /metrics: the handler begins to range over c.metrics; keys are the
\* entries it has yet to visit.
HandlerBegin(p) ==
    /\ p = "http" /\ pc[p].at = "idle"
    /\ sched.at \notin {"off", "killed"}
    /\ used.calls < MaxCalls
    /\ pc' = [pc EXCEPT ![p] = Pos("range", 0, DOMAIN sched.metrics)]
    /\ run' = [run EXCEPT ![p] = [NoRun EXCEPT !.entry = "/metrics"]]
    /\ used' = [used EXCEPT !.calls = @ + 1]
    /\ UNCHANGED <<checkVars, watchVars, schedVars, os, kind, last, streak, mode, state>>

\* The handler writes one gauge.  An entry that CheckAndUpdate adds while
\* the range is under way is visited or not.
HandlerWrite(p) ==
    /\ pc[p].at = "range"
    /\ \E key \in pc[p].keys \cup (DOMAIN sched.metrics \ {run[p].results[j][1] : j \in DOMAIN run[p].results}) :
          /\ run' = [run EXCEPT ![p].results = Append(@, <<key, sched.metrics[key]>>)]
          /\ pc' = [pc EXCEPT ![p].keys = @ \ {key}]
    /\ UNCHANGED <<checkVars, watchVars, schedVars, os, kind, last, streak, mode, state, used>>

\* The range is over, the handler writes edge_state_info and returns.
HandlerEnd(p) ==
    /\ pc[p].at = "range" /\ pc[p].keys = {}
    /\ pc' = [pc EXCEPT ![p] = Idle]
    /\ run' = [run EXCEPT ![p] = NoRun]
    /\ UNCHANGED <<checkVars, watchVars, schedVars, os, kind, last, streak, mode, state, used>>

\* The Go runtime finds the map written while it is ranged over and ends
\* the process: "fatal error: concurrent map iteration and map write".
MapFault ==
    /\ pc["http"].at = "range" /\ sched.at = "checking"
    /\ sched' = [sched EXCEPT !.proc = "exited", !.at = "killed"]
    /\ pc' = [p \in Goroutines |-> IF pc[p].at = "idle" THEN pc[p]
                                    ELSE [pc[p] EXCEPT !.at = "killed"]]
    /\ UNCHANGED <<checkVars, watchVars, os, kind, last, streak, mode, state, run, used>>

MetricsNodes ==
    { <<BaseOS, ServicesSnapshot>>, <<DriftedOS, ServicesSnapshot>>, <<BaseOS, FullSnapshot>> }

InitMetrics ==
    /\ \E n \in MetricsNodes : os = n[1] /\ state = n[2]
    /\ kind = "none"
    /\ last = NoCall
    /\ streak = 0
    /\ mode = ModeDisabled
    /\ pc = [p \in Goroutines |-> Idle]
    /\ run = [p \in Goroutines |-> NoRun]
    /\ used = [fails |-> 0, sets |-> 0, calls |-> 0, updates |-> 0, given |-> mode]
    /\ Constructed /\ NotWatching /\ NotScheduled

NextMetrics ==
    \/ SchedStart
    \/ SchedTick
    \/ CheckBegin("sched")
    \/ CheckService("sched")
    \/ CheckSysctlKey("sched")
    \/ CheckEnd("sched")
    \/ Tick("sched")
    \/ SchedCycleEnd("sched")
    \/ HandlerBegin("http")
    \/ HandlerWrite("http")
    \/ HandlerEnd("http")
    \/ MapFault

SpecMetrics == InitMetrics /\ [][NextMetrics]_vars

(***************************************************************************)
(* The agent built for a host that is not Linux: the four listeners are    *)
(* the stubs of the !linux file, the rest of the watcher and the scheduler *)
(* are the same code.                                                      *)
(***************************************************************************)
\* A faulty variant of the stub: it waits for the context to be cancelled.
StubBlocking(l) ==
    /\ routine[l].at = "setup" /\ watcher.ctx = "cancelled"
    /\ Exited(l)
    /\ UNCHANGED <<checkVars, schedVars, os, kind, last, streak, mode, state, pc, run, used, trail>>

\* runInotifyWatcher, runJournaldWatcher, runAuditdWatcher of the stubs:
\* defer w.wg.Done(), one log line, return.
Stub(l) ==
    /\ routine[l].at = "setup"
    /\ Exited(l)
    /\ UNCHANGED <<checkVars, schedVars, os, kind, last, streak, mode, state, pc, run, used, trail>>

InitStub ==
    /\ os = BaseOS /\ state = ServicesSnapshot
    /\ kind = "none"
    /\ last = NoCall
    /\ streak = 0
    /\ mode = ModeDisabled
    /\ pc = [p \in Goroutines |-> Idle]
    /\ run = [p \in Goroutines |-> NoRun]
    /\ used = [fails |-> 0, sets |-> 0, calls |-> 0, updates |-> 0, given |-> mode]
    /\ Constructed /\ NotScheduled
    /\ \E enabled \in BOOLEAN, ls \in SUBSET Listeners, rec \in BOOLEAN :
          watcher = [NoWatcher EXCEPT !.config = [Enabled |-> enabled, Listeners |-> ls],
                                      !.reconciler = rec, !.state = state]
    /\ routine = NoRoutines
    /\ trail = NoTrail

NextStub ==
    \/ Start
    \/ StopCancel
    \/ StopReturn
    \/ ConsumerDone
    \/ \E l \in Listeners : Stub(l)
    \/ SchedStart
    \/ SchedTick
    \/ SchedCheck("sched")
    \/ Tick("sched")
    \/ SchedCycleEnd("sched")

SpecStub == InitStub /\ [][NextStub]_vars

\* The Go scheduler runs every goroutine that can take a step and the
\* ticker of runPeriodicChecks fires at every interval; whether Stop is
\* called is up to the environment.
FairSpecStub ==
    /\ SpecStub
    /\ WF_vars(StopReturn) /\ SF_vars(ConsumerDone)
    /\ \A l \in Listeners : WF_vars(Stub(l))
    /\ WF_vars(SchedStart) /\ WF_vars(SchedTick) /\ WF_vars(SchedCheck("sched"))
    /\ WF_vars(Tick("sched")) /\ WF_vars(SchedCycleEnd("sched"))

(***************************************************************************)
(* GitOps: the poller loads the state file and hands the new snapshot to   *)
(* main's OnUpdate callback, which stores it in main's variable state and  *)
(* reconciles.  runPeriodicChecks was handed the value of that variable    *)
(* when it was started, NewEventWatcher when the watcher was built.        *)
(***************************************************************************)
MaxUpdates == 1    \* snapshots the GitOps poller delivers in one run

NginxRunning == [EmptySnapshot EXCEPT !.Services = <<Nginx>>]
NginxStopped ==
    [EmptySnapshot EXCEPT
        !.Services = <<[Nginx EXCEPT !.State = ServiceStateStopped, !.Enabled = FALSE]>>]
GitOpsStates == {NginxRunning, NginxStopped}

\* OnUpdate(newState): state = newState, then the mode check of the callback.
OnUpdate(p, newState) ==
    /\ p = "gitops" /\ pc[p].at = "idle"
    /\ used.updates < MaxUpdates
    /\ state' = newState
    /\ pc' = [pc EXCEPT ![p] = Pos("tick", 0, {})]
    /\ run' = [run EXCEPT ![p] = [NoRun EXCEPT !.entry = "OnUpdate", !.state = newState]]
    /\ used' = [used EXCEPT !.updates = @ + 1]
    /\ UNCHANGED <<checkVars, watchVars, schedVars, os, kind, last, streak, mode>>

\* handleEvent on an event that triggers reconciliation:
\* w.reconciler.ReconcileEvent(w.ctx, type, name, w.state)
HandleEventReconciles(p) ==
    /\ p = "watch" /\ pc[p].at = "idle"
    /\ used.calls < MaxCalls
    /\ \E ev \in Events :
          run' = [run EXCEPT ![p] = [NoRun EXCEPT !.entry = "ReconcileEvent", !.event = ev,
                                                 !.state = watcher.state]]
    /\ pc' = [pc EXCEPT ![p] = Pos("event", 0, {})]
    /\ used' = [used EXCEPT !.calls = @ + 1]
    /\ UNCHANGED <<checkVars, watchVars, schedVars, os, kind, last, streak, mode, state>>

\* main with a GitOps repository: the watcher is built on the snapshot
\* loaded at start, then the poller and the scheduler are started.
InitGitOps ==
    /\ os = BaseOS /\ state = NginxRunning
    /\ kind = "none"
    /\ last = NoCall
    /\ streak = 0
    /\ mode \in Modes
    /\ pc = [p \in Goroutines |-> Idle]
    /\ run = [p \in Goroutines |-> NoRun]
    /\ used = [fails |-> 0, sets |-> 0, calls |-> 0, updates |-> 0, given |-> mode]
    /\ Constructed /\ NotScheduled
    /\ watcher = [NoWatcher EXCEPT !.config = [Enabled |-> TRUE, Listeners |-> Listeners],
                                   !.reconciler = TRUE, !.state = state]
    /\ routine = NoRoutines
    /\ trail = NoTrail

NextGitOps ==
    \/ SchedStart
    \/ SchedTick
    \/ SchedCheck("sched")
    \/ SchedCycleEnd("sched")
    \/ \E newState \in GitOpsStates : OnUpdate("gitops", newState)
    \/ HandleEventReconciles("watch")
    \/ Return("watch")
    \/ Return("gitops")
    \/ \E p \in Goroutines :
          \/ ReconcileEvent(p)
          \/ Tick(p)
          \/ ReconcileAll(p)
          \/ ReconcileServices(p)

SpecGitOps == InitGitOps /\ [][NextGitOps]_vars

(***************************************************************************)
(* Two passes at once: the scheduler's and the event consumer's call       *)
(* ReconcileAll on the one Reconciler, which has no lock; the commands of  *)
(* the two ServiceApplier.Apply and SysctlApplier.Apply calls interleave.  *)
(* held is what Apply keeps in its locals between two commands.  No        *)
(* command fails.                                                          *)
(***************************************************************************)
\* The enforcer's result is appended by the loop of the caller.
Appended(p, type, name, m, a) ==
    run' = [run EXCEPT ![p].results = Append(@, EnforcerResult(type, name, m, a)),
                       ![p].calls = Append(@, [type |-> type, name |-> name, mode |-> m,
                                               muts |-> a.muts])]

AfterService(p) ==
    IF pc[p].i < Len(StateOf(p).Services) THEN Pos("svc", pc[p].i + 1, {})
    ELSE FromSysctl(StateOf(p))

AfterSysctl(p, rest) ==
    IF rest # {} THEN Pos("sysctl", 0, rest) ELSE FromFirewall(StateOf(p))

\* ServiceApplier.Apply: systemctl is-active
ApplyIsActive(p) ==
    /\ pc[p].at = "svc"
    /\ pc' = [pc EXCEPT ![p] =
                 [Pos("svc.is-enabled", pc[p].i, {}) EXCEPT !.held =
                     <<IF isServiceActive(os, StateOf(p).Services[pc[p].i].Name)
                       THEN "active" ELSE "inactive">>]]
    /\ UNCHANGED <<checkVars, watchVars, schedVars, os, kind, last, streak, mode, state, run, used>>

\* ServiceApplier.Apply: systemctl is-enabled, then the actions are decided.
ApplyIsEnabled(p) ==
    /\ pc[p].at = "svc.is-enabled"
    /\ \E m \in {GetMode} :
          LET svc == StateOf(p).Services[pc[p].i]
              actions == ServiceActions(svc, pc[p].held[1] = "active",
                                        isServiceEnabled(os, svc.Name))
              muts == IF DryRunOf(m) THEN <<>> ELSE actions
          IN  /\ Appended(p, "service", svc.Name, m,
                          Res(os, actions # <<>>, actions, NoError, muts))
              /\ pc' = [pc EXCEPT ![p] =
                           IF muts = <<>> THEN AfterService(p)
                           ELSE [Pos("svc.run", pc[p].i, {}) EXCEPT !.held =
                                    [j \in DOMAIN actions |-> actions[j][1]]]]
    /\ UNCHANGED <<checkVars, watchVars, schedVars, os, kind, last, streak, mode, state, used>>

\* ServiceApplier.Apply: one turn of the loop over the actions.
ApplySystemctl(p) ==
    /\ pc[p].at = "svc.run"
    /\ os' = executeSystemctl(os, <<Head(pc[p].held)>>, StateOf(p).Services[pc[p].i].Name)
    /\ pc' = [pc EXCEPT ![p] = IF Tail(pc[p].held) = <<>> THEN AfterService(p)
                               ELSE [pc[p] EXCEPT !.held = Tail(@)]]
    /\ UNCHANGED <<checkVars, watchVars, schedVars, kind, last, streak, mode, state, run, used>>

\* SysctlApplier.Apply: Get, and the comparison with the desired value.
ApplyGet(p) ==
    /\ pc[p].at = "sysctl"
    /\ \E key \in pc[p].keys, m \in {GetMode} :
          LET desiredValue == StateOf(p).Sysctl[key]
              actions == IF SysctlGet(os, key) = desiredValue THEN <<>>
                         ELSE << <<"sysctl -w", key, desiredValue>> >>
              muts == IF DryRunOf(m) THEN <<>> ELSE actions
          IN  /\ Appended(p, "sysctl", key, m, Res(os, actions # <<>>, actions, NoError, muts))
              /\ pc' = [pc EXCEPT ![p] =
                           IF muts = <<>> THEN AfterSysctl(p, pc[p].keys \ {key})
                           ELSE [Pos("sysctl.set", 0, pc[p].keys) EXCEPT !.held = <<key>>]]
    /\ UNCHANGED <<checkVars, watchVars, schedVars, os, kind, last, streak, mode, state, used>>

\* SysctlApplier.Apply: Set
ApplySet(p) ==
    /\ pc[p].at = "sysctl.set"
    /\ os' = SysctlSet(os, pc[p].held[1], StateOf(p).Sysctl[pc[p].held[1]])
    /\ pc' = [pc EXCEPT ![p] = AfterSysctl(p, pc[p].keys \ {pc[p].held[1]})]
    /\ UNCHANGED <<checkVars, watchVars, schedVars, kind, last, streak, mode, state, run, used>>

\* The goroutines that reconcile on their own: scheduler and consumer.
Reconcilers == {"sched", "watch"}

InitRace ==
    /\ os \in {BaseOS, DriftedOS} /\ state = ServicesSnapshot
    /\ kind = "none"
    /\ last = NoCall
    /\ streak = 0
    /\ mode = ModeEnforce
    /\ pc = [p \in Goroutines |-> Idle]
    /\ run = [p \in Goroutines |-> NoRun]
    /\ used = [fails |-> 0, sets |-> 0, calls |-> 0, updates |-> 0, given |-> mode]
    /\ Constructed /\ NotScheduled
    /\ watcher = [NoWatcher EXCEPT !.config = [Enabled |-> TRUE, Listeners |-> Listeners],
                                   !.reconciler = TRUE, !.state = state]
    /\ routine = NoRoutines
    /\ trail = NoTrail

NextRace ==
    \/ SchedStart
    \/ SchedTick
    \/ SchedCheck("sched")
    \/ SchedCycleEnd("sched")
    \/ HandleEventReconciles("watch")
    \/ Return("watch")
    \/ \E p \in Reconcilers :
          \/ ReconcileEvent(p)
          \/ Tick(p)
          \/ ReconcileAll(p)
          \/ ApplyIsActive(p)
          \/ ApplyIsEnabled(p)
          \/ ApplySystemctl(p)
          \/ ApplyGet(p)
          \/ ApplySet(p)

SpecRace == InitRace /\ [][NextRace]_vars

(***************************************************************************)
(* GitOpsSync: Start clones or pulls, loads the state file and hands it to *)
(* the callback, then does the same on every tick of its ticker until its  *)
(* context is cancelled.  What the remote holds is up to the environment.  *)
(* The callback is the one main installs, the mode being disabled: it      *)
(* stores the new state and returns nil.                                   *)
(***************************************************************************)
MaxPolls == 2      \* ticks of the poller's ticker in one run

\* What the state file of the clone holds: YAML documents, one of them
\* broken.
Docs == {"services: [nginx running]", "services: [nginx stopped]", "services: ["}
RepoFiles == {[exists |-> FALSE, doc |-> ""]} \cup [exists : {TRUE}, doc : Docs]

\* config.LoadStateConfig: os.ReadFile, then yaml.Unmarshal into a State.
LoadStateConfig(file) ==
    IF ~file.exists THEN [err |-> "read file", state |-> NoState]
    ELSE CASE file.doc = "services: [nginx running]" -> [err |-> NoError, state |-> NginxRunning]
           [] file.doc = "services: [nginx stopped]" -> [err |-> NoError, state |-> NginxStopped]
           [] OTHER -> [err |-> "parse yaml", state |-> NoState]

\* A faulty variant of checkAndUpdate: a file that does not parse is handed
\* to the callback as an empty state.
checkAndUpdateLenient(file) ==
    IF ~file.exists THEN [err |-> "state file not found", called |-> FALSE, state |-> NoState]
    ELSE [err |-> NoError, called |-> TRUE, state |-> LoadStateConfig(file).state]

\* checkAndUpdate: the error it returns, whether it called onUpdate, and the
\* state it passed.
checkAndUpdate(file) ==
    IF ~file.exists THEN [err |-> "state file not found", called |-> FALSE, state |-> NoState]
    ELSE LET loaded == LoadStateConfig(file)
         IN  IF loaded.err # NoError
             THEN [err |-> "failed to load state", called |-> FALSE, state |-> NoState]
             ELSE [err |-> NoError, called |-> TRUE, state |-> loaded.state]

\* cloneOrPull, then checkAndUpdate unless the pull failed: the poll is
\* recorded, the callback stores the state it is handed.
Polled(ok, file) ==
    LET u == checkAndUpdate(file)
    IN  /\ sync' = [sync EXCEPT
                       !.polls = Append(@, [ok |-> ok, file |-> file]),
                       !.calls = IF ok /\ u.called THEN Append(@, u.state) ELSE @,
                       !.at = IF sync.at = "off" /\ ~ok THEN "returned" ELSE "select",
                       !.err = IF sync.at = "off" /\ ~ok THEN "initial clone failed" ELSE @]
        /\ state' = IF ok /\ u.called THEN u.state ELSE state

\* Start, up to its loop: the initial clone and the initial load.
SyncStart ==
    /\ sync.at = "off"
    /\ \E ok \in BOOLEAN, file \in RepoFiles : Polled(ok, file)
    /\ UNCHANGED <<watchVars, schedVars, os, kind, last, streak, mode, pc, run, used,
                   enforcers, health>>

\* case <-ticker.C
SyncTick ==
    /\ sync.at = "select" /\ Len(sync.polls) <= MaxPolls
    /\ \E ok \in BOOLEAN, file \in RepoFiles : Polled(ok, file)
    /\ UNCHANGED <<watchVars, schedVars, os, kind, last, streak, mode, pc, run, used,
                   enforcers, health>>

\* The context handed to Start is cancelled.
SyncCancel ==
    /\ ~sync.cancelled
    /\ sync' = [sync EXCEPT !.cancelled = TRUE]
    /\ UNCHANGED <<watchVars, schedVars, os, kind, last, streak, mode, state, pc, run, used,
                   enforcers, health>>

\* case <-ctx.Done(): Start returns nil.
SyncDone ==
    /\ sync.at = "select" /\ sync.cancelled
    /\ sync' = [sync EXCEPT !.at = "returned"]
    /\ UNCHANGED <<watchVars, schedVars, os, kind, last, streak, mode, state, pc, run, used,
                   enforcers, health>>

InitSync ==
    /\ os = BaseOS /\ state = NginxRunning
    /\ kind = "none"
    /\ last = NoCall
    /\ streak = 0
    /\ mode = ModeDisabled
    /\ pc = [p \in Goroutines |-> Idle]
    /\ run = [p \in Goroutines |-> NoRun]
    /\ used = [fails |-> 0, sets |-> 0, calls |-> 0, updates |-> 0, given |-> mode]
    /\ Constructed /\ NotWatching /\ NotScheduled

NextSync ==
    \/ SyncStart
    \/ SyncTick
    \/ SyncCancel
    \/ SyncDone

SpecSync == InitSync /\ [][NextSync]_vars

\* The Go scheduler runs the goroutine of Start whenever it can take a step,
\* git ends, and the select takes the ctx.Done() case sooner or later once
\* it is ready; ticks and the cancellation are up to the environment.
FairSpecSync == SpecSync /\ WF_vars(SyncStart) /\ SF_vars(SyncDone)

(***************************************************************************)
(* The agent under its own audit trail: a node that audits executions and  *)
(* matches the snapshot, the auditd listener configured as the README and  *)
(* init-node.sh configure it, and the consumer; nothing but the agent runs *)
(* a command.                                                              *)
(***************************************************************************)
DocumentedCommands == <<"systemctl", "sysctl", "ufw">>

\* The resources of one kind reconciled one after the other with no failing
\* command: the node they leave.
RECURSIVE AllServices(_, _, _, _)
AllServices(o, services, m, i) ==
    IF i > Len(services) THEN o
    ELSE AllServices(ServiceEnforcerReconcile(o, services[i], m, "none").os, services, m, i + 1)

RECURSIVE AllSysctl(_, _, _, _)
AllSysctl(o, params, keys, m) ==
    IF keys = {} THEN o
    ELSE LET key == CHOOSE k \in keys : TRUE
         IN  AllSysctl(SysctlEnforcerReconcile(o, key, params[key], m, "none").os,
                       params, keys \ {key}, m)

RECURSIVE AllPackages(_, _, _, _)
AllPackages(o, packages, m, i) ==
    IF i > Len(packages) THEN o
    ELSE AllPackages(PackageEnforcerReconcile(o, packages[i], m, "none").os, packages, m, i + 1)

RECURSIVE AllFiles(_, _, _, _)
AllFiles(o, files, m, i) ==
    IF i > Len(files) THEN o
    ELSE AllFiles(FileEnforcerReconcile(o, files[i], m, "none").os, files, m, i + 1)

\* The programs a pass executes on a node that matches the snapshot:
\* systemctl is-active and is-enabled for a service, sysctl -n for a key,
\* ufw status (and ufw allow under enforce) for the firewall, dpkg-query or
\* rpm for a package, stat for a file with an owner or a group.
PassPrograms(o, st) ==
    (IF Len(st.Services) > 0 THEN {"systemctl"} ELSE {})
    \cup (IF DOMAIN st.Sysctl # {} THEN {"sysctl"} ELSE {})
    \cup (IF (st.Firewall.Enabled \/ Len(st.Firewall.AllowedServices) > 0) /\ isUFWInstalled(o)
          THEN {"ufw"} ELSE {})
    \cup (IF Len(st.Packages) > 0 /\ o.pm = "apt" THEN {"dpkg-query"} ELSE {})
    \cup (IF Len(st.Packages) > 0 /\ o.pm \in {"yum", "dnf"} THEN {"rpm"} ELSE {})
    \cup (IF \E i \in DOMAIN st.Files :
                 FileExists(o, st.Files[i].Path)
                 /\ (st.Files[i].Owner # "" \/ st.Files[i].Group # "")
          THEN {"stat"} ELSE {})

\* The programs Collector.CheckAndUpdate executes.
CheckPrograms(st) ==
    (IF Len(st.Services) > 0 THEN {"systemctl"} ELSE {})
    \cup (IF DOMAIN st.Sysctl # {} THEN {"sysctl"} ELSE {})

\* One ReconcileAll pass over st with no failing command, run on a node
\* that audits executions: the node it leaves, with the records of its
\* programs and of the given ones added to the audit log.
PassLeaves(st, programs) ==
    \E o1 \in {AllServices(os, st.Services, mode, 1)} :
    \E o2 \in {AllSysctl(o1, st.Sysctl, DOMAIN st.Sysctl, mode)} :
    \E o3 \in {IF st.Firewall.Enabled \/ Len(st.Firewall.AllowedServices) > 0
               THEN FirewallEnforcerReconcile(o2, st.Firewall, mode, "none").os
               ELSE o2} :
    \E o4 \in {AllPackages(o3, st.Packages, mode, 1)} :
    \E o5 \in {AllFiles(o4, st.Files, mode, 1)} :
       os' = [o5 EXCEPT !.audit = @ \cup programs \cup PassPrograms(os, st)]

\* runPeriodicChecks, the cycle it runs at start: the Collector check, and
\* the initial reconciliation unless the mode is disabled; the audit
\* subsystem records what they execute.
FirstCycle ==
    /\ sched.checks = 0
    /\ sched' = [sched EXCEPT !.checks = 1,
                              !.metrics = CheckAndUpdate(sched.metrics, os, state)]
    /\ IF mode # ModeDisabled
       THEN PassLeaves(state, CheckPrograms(state))
       ELSE os' = [os EXCEPT !.audit = @ \cup CheckPrograms(state)]
    /\ UNCHANGED <<checkVars, watchVars, kind, last, streak, mode, state, pc, run, used>>

\* runAuditdWatcher on a tick, one new line of the log: an event for the
\* configured command the line contains, if any (an EXECVE record names the
\* program executed; none of the agent's command lines holds two of the
\* configured commands).
ScanAuditLog ==
    /\ routine["auditd"].at = "loop"
    /\ \E program \in os.audit :
          /\ os' = [os EXCEPT !.audit = @ \ {program}]
          /\ IF \E i \in DOMAIN DocumentedCommands :
                    Contains(Chars(program), Chars(DocumentedCommands[i]))
             THEN LET i == CHOOSE i \in DOMAIN DocumentedCommands :
                               Contains(Chars(program), Chars(DocumentedCommands[i]))
                  IN  routine' = [routine EXCEPT !["auditd"] =
                                     [at |-> "send",
                                      event |-> [Type |-> EventCommandExecuted,
                                                 Source |-> "auditd",
                                                 Name |-> DocumentedCommands[i], id |-> 0],
                                      batch |-> 0]]
             ELSE UNCHANGED routine
    /\ UNCHANGED <<checkVars, schedVars, kind, last, streak, mode, state, pc, run, used,
                   watcher, trail>>

\* w.eventChan <- event of the auditd listener
SendAudit ==
    /\ routine["auditd"].at = "send"
    /\ Len(watcher.eventChan) < QueueCap /\ ~watcher.closed
    /\ watcher' = [watcher EXCEPT !.eventChan = Append(@, routine["auditd"].event)]
    /\ routine' = [routine EXCEPT !["auditd"] = [at |-> "loop", event |-> NoEvent, batch |-> 0]]
    /\ UNCHANGED <<checkVars, schedVars, os, kind, last, streak, mode, state, pc, run, used,
                   trail>>

\* processEvents, w.handleEvent(event), with the pass ReconcileEvent runs
\* before it returns; the audit subsystem records what the pass executes.
HandleAndReconcile ==
    /\ routine["processEvents"].at = "handle"
    /\ IF handleEvent(routine["processEvents"].event, watcher.reconciler) # <<>>
          /\ mode # ModeDisabled
       THEN PassLeaves(watcher.state, {})
       ELSE UNCHANGED os
    /\ routine' = [routine EXCEPT !["processEvents"] = [at |-> "select", event |-> NoEvent,
                                                        batch |-> 0]]
    /\ UNCHANGED <<checkVars, schedVars, kind, last, streak, mode, state, pc, run, used,
                   watcher, trail>>

\* A node that matches every snapshot below.
MatchedOS ==
    [BaseOS EXCEPT !.svc["nginx"] = [active |-> TRUE, enabled |-> TRUE],
                   !.sysctl["net.ipv4.ip_forward"] = "1",
                   !.fw = [installed |-> TRUE, enabled |-> TRUE, allowed |-> {"ssh"}],
                   !.pkg["curl"] = [installed |-> TRUE, version |-> "1.0"],
                   !.file["/tmp/x"] = [exists |-> TRUE, content |-> "hello", perm |-> 384,
                                       owner |-> "root", group |-> "root"]]

MatchedSnapshots ==
    {EmptySnapshot, FullSnapshot, NginxRunning,
     [EmptySnapshot EXCEPT !.Sysctl = FullSnapshot.Sysctl],
     [EmptySnapshot EXCEPT !.Firewall = FullSnapshot.Firewall],
     [EmptySnapshot EXCEPT !.Packages = <<Curl>>],
     [EmptySnapshot EXCEPT !.Files = <<TmpX>>]}

InitLoop ==
    /\ os = MatchedOS /\ state \in MatchedSnapshots
    /\ kind = "none"
    /\ last = NoCall
    /\ streak = 0
    /\ mode \in Modes
    /\ pc = [p \in Goroutines |-> Idle]
    /\ run = [p \in Goroutines |-> NoRun]
    /\ used = [fails |-> 0, sets |-> 0, calls |-> 0, updates |-> 0, given |-> mode]
    /\ Constructed /\ NotScheduled
    /\ watcher = [NoWatcher EXCEPT !.config = [Enabled |-> TRUE, Listeners |-> {"auditd"}],
                                   !.reconciler = TRUE, !.state = state,
                                   !.ctx = "live", !.start = NoError, !.wg = 2]
    /\ routine = [NoRoutines EXCEPT !["processEvents"].at = "select", !["auditd"].at = "loop"]
    /\ trail = NoTrail

NextLoop ==
    \/ FirstCycle
    \/ ScanAuditLog
    \/ SendAudit
    \/ Receive
    \/ HandleAndReconcile

SpecLoop == InitLoop /\ [][NextLoop]_vars

\* The Go scheduler runs every goroutine that can take a step, and the
\* ticker of the auditd listener keeps ticking; the ticker of
\* runPeriodicChecks is left out, no later cycle is needed for what follows.
FairSpecLoop ==
    /\ SpecLoop
    /\ WF_vars(FirstCycle) /\ WF_vars(ScanAuditLog) /\ WF_vars(SendAudit)
    /\ WF_vars(Receive) /\ WF_vars(HandleAndReconcile)

\* The Go scheduler runs the goroutine of runPeriodicChecks whenever it can
\* take a step, and its select takes the ctx.Done() case sooner or later
\* once that case is ready; ticks, SetMode and cancellation are up to the
\* environment.
FairSpecSched ==
    /\ SpecSched
    /\ WF_vars(SchedStart) /\ SF_vars(SchedDone)
    /\ \A p \in Callers :
          /\ WF_vars(SchedCheck(p)) /\ WF_vars(Tick(p)) /\ WF_vars(ReconcileAll(p))
          /\ WF_vars(ReconcileServices(p)) /\ WF_vars(ReconcileSysctl(p))
          /\ WF_vars(ReconcileFirewall(p)) /\ WF_vars(ReconcilePackages(p))
          /\ WF_vars(ReconcileFiles(p)) /\ WF_vars(SchedCycleEnd(p))

(***************************************************************************)
(* Properties of the Reconciler, checked under Spec                        *)
(***************************************************************************)
\* The enforcer call p made last.
LastCall(r) == r.calls[Len(r.calls)]

FirewallConfigured(st) == st.Firewall.Enabled \/ Len(st.Firewall.AllowedServices) > 0

\* The resources of a snapshot, in the order ReconcileAll is to take them:
\* type and name, the name left open for the sysctl keys.
Resources(st) ==
    [i \in 1..Len(st.Services) |-> <<"service", st.Services[i].Name>>]
    \o [i \in 1..Cardinality(DOMAIN st.Sysctl) |-> <<"sysctl", "">>]
    \o (IF FirewallConfigured(st) THEN << <<"firewall", "ufw">> >> ELSE <<>>)
    \o [i \in 1..Len(st.Packages) |-> <<"package", st.Packages[i].Name>>]
    \o [i \in 1..Len(st.Files) |-> <<"file", st.Files[i].Path>>]

\* The results of the given type.
OfType(results, type) == {i \in DOMAIN results : results[i].ResourceType = type}

\* p's call went through ReconcileAll, which has returned a full pass.
PassDone(p) ==
    /\ InAll(p) /\ pc[p] = Done
    /\ run[p].entryMode \in {ModeDryRun, ModeEnforce}

\* C1: when ReconcileAll reads the mode disabled on entry it returns
\* (nil, nil): no result and no error, with no enforcer called and so no OS
\* mutation, whatever the snapshot holds.
DisabledPassDoesNothing ==
    \A p \in Callers :
        run[p].entryMode = ModeDisabled =>
            /\ pc[p] = Done
            /\ run[p].results = <<>>
            /\ run[p].calls = <<>>
            /\ run[p].err = NoError

\* ReconcileAll called directly, mode disabled, on a node where every
\* resource of a five-kind snapshot has drifted.
WitnessDisabledPassDoesNothing ==
    \E p \in Callers :
        /\ run[p].entry = "ReconcileAll" /\ run[p].entryMode = ModeDisabled
        /\ run[p].passes = 1 /\ pc[p] = Done
        /\ state = FullSnapshot /\ os = BaseOS

\* C2: in every interleaving of SetMode, ticks, events and direct per-kind
\* calls, the node changes only in a step that is an enforcer call, and an
\* enforcer call runs a mutating command (or changes the node) only when
\* the mode it was handed is enforce.
MutationOnlyUnderEnforce ==
    [][/\ os' # os => \E p \in Callers : Len(run'[p].calls) = Len(run[p].calls) + 1
       /\ \A p \in Callers :
             (/\ Len(run'[p].calls) = Len(run[p].calls) + 1
              /\ (LastCall(run'[p]).muts # <<>> \/ os' # os)) =>
                 LastCall(run'[p]).mode = ModeEnforce]_vars

\* One pass in which SetMode(disabled) fell between two enforcer calls: the
\* first mutated the node under enforce, the later one found drift under
\* disabled and ran nothing.
WitnessMutationOnlyUnderEnforce ==
    \E p \in Callers : \E i, j \in DOMAIN run[p].calls :
        /\ i < j
        /\ run[p].calls[i].mode = ModeEnforce /\ run[p].calls[i].muts # <<>>
        /\ run[p].calls[j].mode = ModeDisabled /\ run[p].calls[j].muts = <<>>
        /\ ~run[p].results[j].WasCompliant /\ run[p].results[j].Error = NoError

\* C5: a ReconcileAll pass under dry-run or enforce returns exactly one
\* result for every service, sysctl key, the firewall when configured, every
\* package and every file of the snapshot, enforcer errors or not.
OneResultPerResource ==
    \A p \in Callers :
        PassDone(p) =>
            LET results == run[p].results IN
            /\ Len(results) = Len(Resources(state))
            /\ Cardinality(OfType(results, "service")) = Len(state.Services)
            /\ Cardinality(OfType(results, "sysctl")) = Cardinality(DOMAIN state.Sysctl)
            /\ Cardinality(OfType(results, "firewall")) =
                   (IF FirewallConfigured(state) THEN 1 ELSE 0)
            /\ Cardinality(OfType(results, "package")) = Len(state.Packages)
            /\ Cardinality(OfType(results, "file")) = Len(state.Files)
            /\ {results[i].ResourceName : i \in OfType(results, "sysctl")} = DOMAIN state.Sysctl
            /\ {results[i].ResourceName : i \in OfType(results, "service")} =
                   {state.Services[i].Name : i \in DOMAIN state.Services}

\* A pass over five resources in which the first, the third and the fourth
\* enforcer failed, and the last one still ran.
WitnessOneResultPerResource ==
    \E p \in Callers :
        /\ PassDone(p) /\ Len(run[p].results) = 5
        /\ run[p].results[1].Error # NoError
        /\ run[p].results[3].Error # NoError
        /\ run[p].results[4].Error # NoError
        /\ run[p].results[5].Error = NoError

\* C6: ReconcileAll returns a nil error in every case; a resource's failure
\* is the Error of its own result, and the results before and after it are
\* returned with it.
ReconcileAllReturnsNil ==
    \A p \in Callers :
        InAll(p) =>
            /\ run[p].err = NoError
            /\ Len(run[p].results) = Len(run[p].calls)
            /\ (pc[p] = Done /\ run[p].entryMode # ModeDisabled /\ run[p].passes = 1) =>
                   Len(run[p].results) = Len(Resources(state))

\* ReconcileAll has returned nil although ReconcileFirewall handed it an
\* error; the firewall's result carries the error, between two others.
WitnessReconcileAllReturnsNil ==
    \E p \in Callers : \E i \in DOMAIN run[p].results :
        /\ run[p].entry = "ReconcileAll" /\ pc[p] = Done /\ run[p].err = NoError
        /\ run[p].results[i].ResourceType = "firewall"
        /\ run[p].results[i].Error # NoError
        /\ 1 < i /\ i < Len(run[p].results)

\* C7: every ReconcileAll pass takes the kinds in the order services, sysctl,
\* firewall, packages, files, and services, packages and files in the
\* snapshot's list order (sysctl keys in any order, each once); the results
\* and the enforcer calls both follow it, so two passes over one snapshot
\* agree.
FixedOrder ==
    \A p \in Callers :
        InAll(p) =>
            LET results == run[p].results
                calls == run[p].calls
                expected == Resources(state)
            IN  /\ Len(results) <= Len(expected)
                /\ Len(calls) = Len(results)
                /\ \A i \in DOMAIN results :
                      /\ results[i].ResourceType = expected[i][1]
                      /\ IF expected[i][1] = "sysctl"
                         THEN /\ results[i].ResourceName \in DOMAIN state.Sysctl
                              /\ \A j \in DOMAIN results :
                                    results[j].ResourceName = results[i].ResourceName => j = i
                         ELSE results[i].ResourceName = expected[i][2]
                      /\ calls[i].type = results[i].ResourceType
                      /\ calls[i].name = results[i].ResourceName

\* The second call of a run, a dry-run pass over a snapshot that lists sshd
\* before nginx: sshd comes first, and the sysctl keys came in the order
\* that is not the alphabetical one.
WitnessFixedOrder ==
    \E p \in Callers :
        /\ run[p].entry = "ReconcileAll" /\ pc[p] = Done /\ used.calls = 2
        /\ run[p].entryMode = ModeDryRun /\ mode = ModeDryRun
        /\ state = ServicesSnapshot /\ Len(run[p].results) = 4
        /\ run[p].results[1].ResourceName = "sshd"
        /\ run[p].results[3].ResourceName = "vm.swappiness"
        /\ run[p].results[4].DryRun

\* p's call is a ReconcileEvent that has returned.
EventDone(p) == run[p].entry = "ReconcileEvent" /\ pc[p] = Done

\* C10, as amended: for every event type and resource name, a ReconcileEvent
\* that reads the mode dry-run or enforce calls ReconcileAll exactly once and
\* returns its error, nil; that ReconcileAll covers the whole snapshot
\* unless it reads the mode disabled on its own entry, when it does nothing;
\* a ReconcileEvent that reads disabled returns nil and calls nothing.
EventRunsOnePass ==
    \A p \in Callers :
        EventDone(p) =>
            /\ run[p].err = NoError
            /\ run[p].gate \in {ModeDryRun, ModeEnforce} =>
                  /\ run[p].passes = 1
                  /\ run[p].entryMode # ModeDisabled =>
                         Len(run[p].results) = Len(Resources(state))
                  /\ run[p].entryMode = ModeDisabled => run[p].results = <<>>
            /\ run[p].gate = ModeDisabled =>
                  /\ run[p].passes = 0
                  /\ run[p].results = <<>> /\ run[p].calls = <<>>

\* An event about nginx under enforce: the pass that followed covered all
\* five kinds, down to the file.
WitnessEventRunsOnePass ==
    \E p \in Callers :
        /\ EventDone(p) /\ run[p].event = <<"unit_state_change", "nginx">>
        /\ run[p].gate = ModeEnforce /\ run[p].passes = 1
        /\ Len(run[p].results) = 5
        /\ run[p].results[5].ResourceType = "file"
        /\ run[p].calls[5].muts # <<>>

\* C10, as stated: a ReconcileEvent called while the mode is dry-run or
\* enforce runs exactly one full ReconcileAll over the whole snapshot and
\* returns its error; called while the mode is disabled it returns nil
\* without running any pass.
EventRunsOneFullPass ==
    \A p \in Callers :
        EventDone(p) =>
            /\ run[p].err = NoError
            /\ run[p].gate \in {ModeDryRun, ModeEnforce} =>
                  /\ run[p].passes = 1
                  /\ Len(run[p].results) = Len(Resources(state))
            /\ run[p].gate = ModeDisabled =>
                  /\ run[p].passes = 0
                  /\ run[p].results = <<>> /\ run[p].calls = <<>>

(***************************************************************************)
(* Properties of the appliers, checked under SpecApply                     *)
(***************************************************************************)
\* What Check (Get, for a sysctl key) returns for every resource of the node.
Checks(o) ==
    [service  |-> [n \in ServiceNames |-> ServiceCheck(o, n)],
     sysctl   |-> [k \in SysctlKeys |-> SysctlGet(o, k)],
     firewall |-> FirewallCheck(o),
     package  |-> [n \in PackageNames |-> PackageCheck(o, n)],
     file     |-> [f \in Paths |-> FileCheck(o, f)]]

\* C3: for every applier kind, every spec and every live state, Apply with
\* dryRun=true runs no mutating command and leaves the node as it was, so
\* that a Check after the call returns what a Check before it returned.
DryRunLeavesStateAlone ==
    (last.kind # "none" /\ last.dryRun) =>
        /\ last.muts = <<>>
        /\ os = last.pre
        /\ Checks(os) = Checks(last.pre)

\* A dry-run Apply on a file that differs in content and in mode: two
\* intended actions, none taken.
WitnessDryRunLeavesStateAlone ==
    /\ last.kind = "file" /\ last.dryRun
    /\ last.Changed /\ Len(last.Actions) >= 2
    /\ FileExists(os, last.spec.Path)
    /\ os.file[last.spec.Path].content # last.spec.Content

\* C4: for every applier kind and every spec, the second of two consecutive
\* Apply(R, dryRun=false) calls, with no failing command and nothing else
\* touching the node, returns Changed=false.
SecondApplyUnchanged == streak = 2 => ~last.Changed

\* The service part of C8: after an Apply that returns no error the service
\* is active iff it is to be running, enabled iff it is to be enabled.
ServiceReachesDesired ==
    (last.kind = "service" /\ ~last.dryRun /\ last.Error = NoError) =>
        /\ isServiceActive(os, last.spec.Name) = (last.spec.State = ServiceStateRunning)
        /\ isServiceEnabled(os, last.spec.Name) = last.spec.Enabled

\* The dry-run part of C8: a stopped and disabled service that is to be
\* running and enabled gives a dry-run result that is not compliant and
\* lists start, then enable.
DryRunServiceResult ==
    (/\ last.kind = "service" /\ last.dryRun /\ last.Error = NoError
     /\ last.spec.State = ServiceStateRunning /\ last.spec.Enabled
     /\ ~isServiceActive(last.pre, last.spec.Name)
     /\ ~isServiceEnabled(last.pre, last.spec.Name)) =>
        LET result == EnforcerResult("service", last.spec.Name, ModeDryRun, last)
        IN  /\ ~result.WasCompliant
            /\ result.DryRun
            /\ result.Action = << <<"start">>, <<"enable">> >>

NewFileGetsContentAndMode ==
    (/\ last.kind = "file" /\ ~last.dryRun /\ last.fail = "none"
     /\ ~FileExists(last.pre, last.spec.Path)
     /\ last.spec.Content # "" /\ last.spec.Mode # "") =>
        /\ last.Error = NoError
        /\ FileExists(os, last.spec.Path)
        /\ os.file[last.spec.Path].content = last.spec.Content
        /\ Perm(os.file[last.spec.Path].perm) = ParseUint8(last.spec.Mode)

(***************************************************************************)
(* Properties of the enforcers and of the mode                             *)
(***************************************************************************)
\* C11: no enforcer is ever handed the mode disabled, SetMode(disabled)
\* racing with a pass and direct calls of the per-kind entry points
\* included: every enforcer call is made with dry-run or enforce.
EnforcerNeverDisabled ==
    \A p \in Callers : \A i \in DOMAIN run[p].calls :
        run[p].calls[i].mode \in {ModeDryRun, ModeEnforce}

\* p's step is an enforcer call.
EnforcerCalled(p) == Len(run'[p].calls) = Len(run[p].calls) + 1

\* C12: every enforcer call is handed the mode the Reconciler holds when the
\* call begins, not the mode its pass started with: a resource taken after
\* SetMode(m') is processed under m', one taken before it under the old mode.
ModeReadPerResource ==
    [][\A p \in Callers : EnforcerCalled(p) => LastCall(run'[p]).mode = mode]_vars

\* One ReconcileAll pass that began under dry-run and holds a dry-run result
\* followed by an enforce result that mutated the node.
WitnessModeReadPerResource ==
    \E p \in Callers : \E i, j \in DOMAIN run[p].calls :
        /\ InAll(p) /\ run[p].entryMode = ModeDryRun /\ used.sets = 1
        /\ i < j
        /\ run[p].calls[i].mode = ModeDryRun /\ run[p].results[i].DryRun
        /\ ~run[p].results[i].WasCompliant
        /\ run[p].calls[j].mode = ModeEnforce /\ ~run[p].results[j].DryRun
        /\ run[p].calls[j].muts # <<>>

\* The name (key, path) of the resource the harness's latest Apply was about.
LastName ==
    CASE last.kind = "service"  -> last.spec.Name
      [] last.kind = "sysctl"   -> last.spec[1]
      [] last.kind = "firewall" -> "ufw"
      [] last.kind = "package"  -> last.spec.Name
      [] last.kind = "file"     -> last.spec.Path

\* C13, as amended: the ReconcileResult an enforcer builds from an
\* ApplyResult without error has WasCompliant = ~Changed; built from one with
\* an error it has WasCompliant = false, whatever Changed is.
WasCompliantFromChanged ==
    last.kind # "none" =>
        \A m \in Modes :
            EnforcerResult(last.kind, LastName, m, last).WasCompliant
                = (last.Error = NoError /\ ~last.Changed)

\* An Apply whose status read failed: Changed=false and an error, which the
\* enforcer turns into a result that is not compliant.
WitnessWasCompliantFromChanged ==
    /\ last.kind = "service" /\ last.Error # NoError /\ ~last.Changed
    /\ ~EnforcerResult(last.kind, LastName, ModeEnforce, last).WasCompliant

\* C13, as stated: WasCompliant is the negation of Changed, on success and
\* on error alike.
WasCompliantIsNotChanged ==
    last.kind # "none" =>
        \A m \in Modes :
            EnforcerResult(last.kind, LastName, m, last).WasCompliant = ~last.Changed

\* The type tag and the name the enforcer call p is about to make will put
\* into its result (the sysctl key is any of those left).
NextTagged(p, result) ==
    CASE pc[p].at = "svc"    -> /\ result.ResourceType = "service"
                                /\ result.ResourceName = state.Services[pc[p].i].Name
      [] pc[p].at = "sysctl" -> /\ result.ResourceType = "sysctl"
                                /\ result.ResourceName \in pc[p].keys
      [] pc[p].at = "fw"     -> /\ result.ResourceType = "firewall"
                                /\ result.ResourceName = "ufw"
      [] pc[p].at = "pkg"    -> /\ result.ResourceType = "package"
                                /\ result.ResourceName = state.Packages[pc[p].i].Name
      [] pc[p].at = "file"   -> /\ result.ResourceType = "file"
                                /\ result.ResourceName = state.Files[pc[p].i].Path
      [] OTHER -> FALSE

\* C14: whatever the kind and the outcome, the result of an enforcer call has
\* DryRun = true exactly when the mode handed to the enforcer is dry-run, and
\* carries the type tag of its kind and the name, key or path of its
\* resource; so a result made under dry-run has DryRun = true.
ResultTagged ==
    [][\A p \in Callers :
          EnforcerCalled(p) =>
              LET result == run'[p].results[Len(run'[p].results)]
              IN  /\ Len(run'[p].results) = Len(run[p].results) + 1
                  /\ result.DryRun = (mode = ModeDryRun)
                  /\ NextTagged(p, result)
                  /\ mode = ModeDryRun => (result.DryRun \/ result.WasCompliant)]_vars

\* A pass under dry-run whose results show the three outcomes, error,
\* compliant and changed, each with DryRun = true.
WitnessResultTagged ==
    \E p \in Callers : \E i, j, k \in DOMAIN run[p].results :
        /\ PassDone(p) /\ \A n \in DOMAIN run[p].calls : run[p].calls[n].mode = ModeDryRun
        /\ run[p].results[i].Error # NoError /\ run[p].results[i].DryRun
        /\ run[p].results[j].Error = NoError /\ run[p].results[j].WasCompliant
        /\ run[p].results[j].DryRun
        /\ run[p].results[k].Error = NoError /\ ~run[p].results[k].WasCompliant
        /\ run[p].results[k].DryRun /\ run[p].results[k].Action # <<>>

\* C15: GetMode returns the mode last given to the Reconciler, by
\* NewReconciler or by the latest SetMode, and the mode changes in no step
\* but a SetMode: not in ReconcileAll, ReconcileEvent, a per-kind call,
\* HealthCheck or an enforcer call that ends in an error.
ModeOnlyBySetMode ==
    /\ [](GetMode = used.given)
    /\ [][used'.sets = used.sets => mode' = mode]_vars

\* A pass that met an enforcer error and a HealthCheck, after a SetMode
\* that changed the mode: GetMode returns what SetMode was given.
WitnessModeOnlyBySetMode ==
    \E p \in Callers :
        /\ used.sets = 1 /\ used.fails = 1 /\ health # "none"
        /\ InAll(p) /\ run[p].gate \in Modes /\ run[p].gate # mode
        /\ \E i \in DOMAIN run[p].results : run[p].results[i].Error # NoError
        /\ GetMode = used.given

\* C16: HealthCheck returns an error exactly when one of the five enforcer
\* references is nil.
HealthCheckSeesEveryEnforcer ==
    health # "none" => (health # NoError <=> enforcers # EnforcerRefs)

(***************************************************************************)
(* Properties of the EventWatcher, checked under SpecWatch                 *)
(***************************************************************************)
Ids(events) == [i \in DOMAIN events |-> events[i].id]
Handling ==
    IF routine["processEvents"].at = "handle" THEN <<routine["processEvents"].event.id>>
    ELSE <<>>

\* C17: eventChan never holds more than its capacity; a listener at its
\* send with the queue full stays there until the consumer has removed an
\* event, and the queue loses, overwrites and reorders nothing: the events
\* handled, being handled and queued are, in this order, the events sent.
QueueBounded ==
    /\ [](Len(watcher.eventChan) <= QueueCap)
    /\ [](Ids(trail.handled) \o Handling \o Ids(watcher.eventChan) = trail.queued)
    /\ [][\A l \in Listeners :
             (routine[l].at = "send" /\ routine'[l] # routine[l]) =>
                 /\ Len(watcher.eventChan) < QueueCap
                 /\ watcher'.eventChan = Append(watcher.eventChan, routine[l].event)]_vars

\* The queue is full again after the consumer made room for a listener that
\* stood at its send, and another listener stands at its send.
WitnessQueueBounded ==
    /\ Len(watcher.eventChan) = QueueCap
    /\ Len(trail.queued) > QueueCap
    /\ \E l \in Listeners : routine[l].at = "send"

\* C18: every event a listener hands to eventChan is handled in the end,
\* events queued or being sent when Stop begins included.
EveryEventHandled ==
    \A id \in 1..MaxEvents :
        (trail.made >= id) ~> (\E i \in DOMAIN trail.handled : trail.handled[i].id = id)

\* C19: once Stop has cancelled the context, Stop returns in the end.
StopReturns == (watcher.stop = "waiting") ~> (watcher.stop = "returned")

(***************************************************************************)
(* Properties of the scheduler, checked under SpecSched                    *)
(***************************************************************************)
\* C20: the scheduler runs its first cycle before any tick and then one
\* cycle for every tick; in a cycle the Collector check is over before the
\* mode is read and before ReconcileAll is called, and ReconcileAll is
\* called, once, exactly when the mode read after the check is not disabled.
CyclePerTick ==
    /\ \A i \in DOMAIN sched.cycles :
          /\ sched.cycles[i].ticks = i - 1
          /\ sched.cycles[i].gate \in Modes
          /\ sched.cycles[i].passes = IF sched.cycles[i].gate # ModeDisabled THEN 1 ELSE 0
    /\ sched.at \in {"select", "exited"} => Len(sched.cycles) = sched.ticks + 1
    /\ \A p \in Callers :
          /\ pc[p].at # "idle" => sched.checks = Len(sched.cycles) + 1
          /\ pc[p].at = "idle" => sched.checks = Len(sched.cycles)
          /\ run[p].passes > 0 => run[p].passes = 1 /\ run[p].gate \in {ModeDryRun, ModeEnforce}
          /\ (pc[p].at = "done" /\ run[p].gate # ModeDisabled) => run[p].passes = 1

\* Two cycles, the first before any tick: it read disabled and did not call
\* ReconcileAll; the second, on the tick, read another mode and called it.
WitnessCyclePerTick ==
    /\ Len(sched.cycles) = 2 /\ sched.ticks = 1 /\ sched.checks = 2
    /\ sched.cycles[1].gate = ModeDisabled /\ sched.cycles[1].passes = 0
    /\ sched.cycles[2].gate = ModeEnforce /\ sched.cycles[2].passes = 1
    /\ sched.metrics # <<>>

\* C21: once the context is cancelled the scheduler loop returns in the
\* end, and it returns only from its select, between cycles: every cycle it
\* began has run its Collector check and its ReconcileAll to the end.
SchedReturnsBetweenCycles ==
    /\ sched.cancelled ~> (sched.at = "exited")
    /\ [](sched.at = "exited" =>
             /\ sched.checks = Len(sched.cycles)
             /\ \A p \in Callers : pc[p].at = "idle")
    /\ [][(sched'.at = "exited" /\ sched.at # "exited") => sched.at = "select"]_vars

\* The loop has returned after a first cycle that was cancelled while in
\* progress and still made its ReconcileAll call.
WitnessSchedReturnsBetweenCycles ==
    /\ sched.at = "exited" /\ sched.ticks = 0
    /\ Len(sched.cycles) = 1 /\ sched.cycles[1].cancelled /\ sched.cycles[1].passes = 1

\* C22: the process ends its graceful shutdown only when no reconciliation
\* pass is in flight: a pass running when the signal arrives is run to its
\* end first.
ShutdownWaitsForPass ==
    sched.proc = "exited" =>
        \A p \in Callers : run[p].passes > 0 => pc[p].at = "done"

(***************************************************************************)
(* Properties of the snapshot pointer, checked under SpecGitOps            *)
(***************************************************************************)
\* C23: every operation that starts, a scheduler cycle, an event-triggered
\* ReconcileEvent or the callback's own pass, works on the snapshot that
\* main's variable state holds at that moment, the one the latest GitOps
\* update installed.
StartsOnInstalledSnapshot ==
    [][\A p \in Goroutines :
          (pc[p].at = "idle" /\ pc'[p].at # "idle") => run'[p].state = state']_vars

(***************************************************************************)
(* Properties of the Collector, checked under SpecMetrics                  *)
(***************************************************************************)
\* C24: the /metrics handler never ranges over the Collector's gauges while
\* the scheduler's CheckAndUpdate is writing them.
GaugesNotReadWhileWritten ==
    ~(pc["http"].at = "range" /\ sched.at = "checking")

\* C27: after a Collector check the gauge of every service of the snapshot
\* is 1 exactly when the service is observed as desired (active when desired
\* running, inactive when desired stopped), and the gauge of every sysctl
\* key is 1 exactly when the value read equals the desired value.
GaugeIsCompliance ==
    (sched.at = "cycle" /\ used.fails = 0) =>
        /\ \A i \in DOMAIN sched.state.Services :
              LET svc == sched.state.Services[i]
              IN  (sched.metrics[<<"service_compliant", svc.Name>>] = 1)
                      <=> (isServiceActive(os, svc.Name) <=> svc.State = ServiceStateRunning)
        /\ \A key \in DOMAIN sched.state.Sysctl :
              (sched.metrics[<<"sysctl_compliant", key>>] = 1)
                  <=> (SysctlGet(os, key) = sched.state.Sysctl[key])

\* C28: with no mutation between the two reads, the gauge the Collector
\* stored for a service or a sysctl key is 1 exactly when the enforcer's
\* result for that resource has WasCompliant = true.
GaugeAgreesWithEnforcer ==
    \A p \in Callers :
        ( /\ sched.at = "cycle" /\ PassDone(p)
          /\ \A n \in DOMAIN run[p].calls : run[p].calls[n].mode = ModeDryRun )
        => \A i \in DOMAIN run[p].results :
              LET result == run[p].results[i]
              IN  (result.ResourceType \in {"service", "sysctl"} /\ result.Error = NoError)
                  => ( result.WasCompliant
                          <=> sched.metrics[<<IF result.ResourceType = "service"
                                               THEN "service_compliant" ELSE "sysctl_compliant",
                                              result.ResourceName>>] = 1 )

(***************************************************************************)
(* Properties of the build for other hosts, checked under FairSpecStub     *)
(***************************************************************************)
\* C26: on a host that is not Linux no listener ever makes an event, Start
\* of an enabled watcher succeeds, every listener that was started logs and
\* returns without waiting for the cancellation, and the scheduler goes on
\* through all its cycles.
StubsReturnAtOnce ==
    /\ [](trail.made = 0 /\ watcher.eventChan = <<>>)
    /\ []((watcher.config.Enabled /\ watcher.ctx # "none") => watcher.start = NoError)
    /\ \A l \in Listeners : (routine[l].at = "setup") ~> (routine[l].at = "exited")
    /\ <>(sched.checks = MaxTicks + 1 /\ sched.at = "select")

\* Every enabled listener has returned while the context is live, Start
\* having succeeded, and the scheduler has finished a cycle since.
WitnessStubsReturnAtOnce ==
    /\ watcher.config.Enabled /\ watcher.config.Listeners = Listeners
    /\ watcher.start = NoError /\ watcher.ctx = "live"
    /\ \A l \in Listeners : routine[l].at = "exited"
    /\ routine["processEvents"].at = "select"
    /\ sched.checks > 0 /\ sched.at = "select"

\* C26 as the specification states it: a listener's routine does not return
\* before the cancellation is signalled.
StubBlocksUntilCancelled ==
    \A l \in Listeners : routine[l].at = "exited" => watcher.ctx = "cancelled"

(***************************************************************************)
(* Properties of two passes at once, checked under SpecRace                *)
(***************************************************************************)
\* Every service and every sysctl key of the snapshot st is as desired on o.
AsDesired(o, st) ==
    /\ \A i \in DOMAIN st.Services :
          /\ isServiceActive(o, st.Services[i].Name)
                 <=> st.Services[i].State = ServiceStateRunning
          /\ isServiceEnabled(o, st.Services[i].Name) <=> st.Services[i].Enabled
    /\ \A key \in DOMAIN st.Sysctl : SysctlGet(o, key) = st.Sysctl[key]

MutationFails ==
    [service |-> {"start", "stop", "enable", "disable"},
     firewall |-> {"enable", "disable", "ssh", "http"},
     file |-> {"write", "chmod", "chown"}]

\* The last Apply call was made with dryRun=false and one of its mutation
\* steps failed.
StepFailed ==
    /\ last.kind \in DOMAIN MutationFails /\ ~last.dryRun
    /\ last.fail \in MutationFails[last.kind]

\* The command cmd is the one named by fail.
IsCommand(cmd, fail) ==
    \/ cmd = <<fail>>
    \/ cmd = <<"ufw " \o fail>>
    \/ cmd[1] = "ufw allow" /\ cmd[2] = fail
    \/ cmd[1] = "write content to" /\ fail = "write"
    \/ cmd[1] = fail /\ fail \in {"chmod", "chown"}

\* The node after the commands cmds, every one of them succeeding.
RECURSIVE After(_, _)
After(o, cmds) ==
    IF cmds = <<>> THEN o
    ELSE LET cmd == Head(cmds)
             o1 == CASE last.kind = "service" -> executeSystemctl(o, cmd, last.spec.Name)
                     [] cmd = <<"ufw enable">> -> FirewallEnable(o)
                     [] cmd = <<"ufw disable">> -> FirewallDisable(o)
                     [] cmd[1] = "ufw allow" -> allowService(o, cmd[2])
                     [] cmd[1] = "write content to" -> writeContent(o, cmd[2], last.spec.Content)
                     [] cmd[1] = "chmod" -> setMode(o, cmd[3], cmd[2])
                     [] cmd[1] = "chown" -> setOwnership(o, cmd[4], cmd[2], cmd[3])
         IN  After(o1, Tail(cmds))

\* The mutation steps of the last call that completed.
Completed == SubSeq(last.muts, 1, Len(last.muts) - 1)

\* What C29 says of every failing step: the error is set, the failing
\* command is the last one run, and the node is as the completed steps
\* left it.
StoppedAtFailure ==
    /\ last.Error # NoError
    /\ last.muts # <<>> /\ IsCommand(last.muts[Len(last.muts)], last.fail)
    /\ os = After(last.pre, Completed)

\* C29, as amended: when a mutation step of a multi-step Apply(dryRun=false)
\* fails, Error is set, no later step is attempted, nothing is rolled back,
\* and Changed is true if a step completed before the failure (it may be
\* true as well when none did).
FailedStepStops ==
    StepFailed => (StoppedAtFailure /\ (Completed # <<>> => last.Changed))

\* A service Apply whose start succeeded and whose enable failed: the unit
\* stays started, the error is set, Changed is true.
WitnessFailedStepStops ==
    /\ StepFailed /\ last.kind = "service" /\ last.fail = "enable"
    /\ last.muts = << <<"start">>, <<"enable">> >>
    /\ isServiceActive(os, last.spec.Name) /\ ~isServiceActive(last.pre, last.spec.Name)
    /\ last.Error # NoError /\ last.Changed

\* C29, as stated: Changed is true if and only if at least one mutation step
\* completed before the failure.
ChangedIffStepCompleted ==
    StepFailed => (StoppedAtFailure /\ (last.Changed <=> Completed # <<>>))

\* The commands that only read the node, for each kind.
ReadFails ==
    [service |-> {"is-active", "is-enabled"}, sysctl |-> {"get"}, firewall |-> {"status"},
     package |-> {"query"}, file |-> {"stat", "read", "getmode", "getowner"}]

\* C30: when a read of the resource's live state fails during an enforcer
\* call, the result carries an error, is not compliant, and no mutating
\* command was run for the resource, whatever its kind.
ReadFailureIsError ==
    (last.kind # "none" /\ last.fail \in ReadFails[last.kind]) =>
        /\ EnforcerResult(last.kind, LastName, ModeEnforce, last).Error # NoError
        /\ ~EnforcerResult(last.kind, LastName, ModeEnforce, last).WasCompliant
        /\ last.muts = <<>> /\ os = last.pre

(***************************************************************************)
(* Properties of the firewall applier, checked under SpecApply             *)
(***************************************************************************)
\* C31: no firewall Apply, whatever the desired spec and whichever command
\* fails, takes a service out of the set the live firewall allows: the set
\* only grows, and a service allowed live that the spec does not name stays
\* allowed.
AllowedOnlyGrows ==
    [][kind = "firewall" => os.fw.allowed \subseteq os'.fw.allowed]_vars

\* An Apply that enabled the firewall and allowed ssh on a node where http,
\* which the spec does not name, was allowed: http is still allowed.
WitnessAllowedOnlyGrows ==
    /\ last.kind = "firewall" /\ ~last.dryRun /\ last.Error = NoError
    /\ last.spec.AllowedServices = <<"ssh">>
    /\ last.pre.fw.allowed = {"http"} /\ ~last.pre.fw.enabled
    /\ os.fw.allowed = {"http", "ssh"} /\ os.fw.enabled

(***************************************************************************)
(* Properties of the GitOps sync, checked under FairSpecSync               *)
(***************************************************************************)
\* The states of the polls that pulled and found a state file that parses.
RECURSIVE GoodPolls(_)
GoodPolls(polls) ==
    IF polls = <<>> THEN <<>>
    ELSE LET poll == Head(polls)
             loaded == LoadStateConfig(poll.file)
         IN  (IF poll.ok /\ poll.file.exists /\ loaded.err = NoError
              THEN <<loaded.state>> ELSE <<>>) \o GoodPolls(Tail(polls))

\* C32: the callback has been called once, with the parsed state, for every
\* pull that succeeded and found a state file that parses, and for no other
\* poll; a poll of the loop leaves Start polling whatever its outcome; Start
\* has returned only with an error after a failed initial clone, no
\* callback made, or with nil after the cancellation; and once cancelled
\* the loop returns.
CallbackPerGoodPull ==
    /\ [](sync.calls = GoodPolls(sync.polls))
    /\ [][(sync.at = "select" /\ Len(sync'.polls) > Len(sync.polls)) => sync'.at = "select"]_vars
    /\ [](sync.at = "returned" =>
             \/ /\ sync.err # NoError /\ Len(sync.polls) = 1 /\ ~sync.polls[1].ok
                /\ sync.calls = <<>>
             \/ sync.err = NoError /\ sync.cancelled)
    /\ [](sync.at = "select" => (sync.polls # <<>> /\ sync.polls[1].ok))
    /\ (sync.at = "select" /\ sync.cancelled) ~> (sync.at = "returned")

\* Three polls: one whose pull failed, one that found no state file, and
\* one that made the one callback, with the state that main now holds.
WitnessCallbackPerGoodPull ==
    /\ sync.at = "select" /\ Len(sync.polls) = 3 /\ Len(sync.calls) = 1
    /\ \E i, j, k \in DOMAIN sync.polls :
          /\ ~sync.polls[i].ok
          /\ sync.polls[j].ok /\ ~sync.polls[j].file.exists
          /\ sync.polls[k].ok /\ sync.polls[k].file.doc = "services: [nginx stopped]"
    /\ state = NginxStopped

(***************************************************************************)
(* Properties of the consumer, checked under SpecWatch                     *)
(***************************************************************************)
\* C33: an event leaves the queue only when the one consumer stands at its
\* select with no event in hand, and it is the oldest one queued; the
\* consumer is back at its select only when handleEvent, with the
\* ReconcileEvent call in it, has returned for the event in hand; so the
\* events are handled one at a time in the order they were queued.
OneEventAtATime ==
    /\ [][Len(watcher'.eventChan) < Len(watcher.eventChan) =>
             /\ routine["processEvents"] = [at |-> "select", event |-> NoEvent, batch |-> 0]
             /\ routine'["processEvents"] =
                    [at |-> "handle", event |-> Head(watcher.eventChan), batch |-> 0]
             /\ watcher'.eventChan = Tail(watcher.eventChan)]_vars
    /\ [][(routine["processEvents"].at = "handle" /\ routine'["processEvents"].at # "handle") =>
             /\ routine'["processEvents"].at = "select"
             /\ Len(trail'.handled) = Len(trail.handled) + 1
             /\ trail'.handled[Len(trail'.handled)].id = routine["processEvents"].event.id]_vars
    /\ [](\A i \in DOMAIN trail.handled : trail.handled[i].id = trail.queued[i])

\* Two events handled in the order they were queued while a third waits in
\* the queue.
WitnessOneEventAtATime ==
    /\ Len(trail.handled) = 2 /\ Len(trail.queued) = 3
    /\ trail.handled[1].id = trail.queued[1] /\ trail.handled[2].id = trail.queued[2]
    /\ Len(watcher.eventChan) = 1
    /\ routine["processEvents"].at = "select"

(***************************************************************************)
(* Properties of handleEvent, checked under SpecConsume                    *)
(***************************************************************************)
\* The events the consumer is to reconcile for: file changes, unit state
\* changes, and of the commands seen here systemctl and apt-get, which
\* contain a listed command, but not ls.
Triggers(event) ==
    \/ event.Type \in {EventFileModified, EventUnitStateChange}
    \/ event.Type = EventCommandExecuted /\ event.Name \in {"systemctl", "apt-get"}

\* C34: a consumer that has a reconciler calls ReconcileEvent, with the
\* event's type and name, for every file-modified and every
\* unit-state-changed event and for a command-executed event whose command
\* contains a listed command, and for no other event; after any of them it
\* is back at its select.
ReconcilesByType ==
    [][(watcher.reconciler /\ Len(trail'.handled) > Len(trail.handled)) =>
          LET event == routine["processEvents"].event
              call == trail'.handled[Len(trail'.handled)].call
          IN  /\ call = IF Triggers(event) THEN <<event.Type, event.Name>> ELSE <<>>
              /\ routine'["processEvents"].at = "select"]_vars

\* The consumer made a ReconcileEvent call for apt-get and then handled a
\* service-log event with no call.
WitnessReconcilesByType ==
    /\ watcher.reconciler /\ Len(trail.handled) = 2
    /\ trail.handled[1].call = <<EventCommandExecuted, "apt-get">>
    /\ trail.handled[2].call = <<>>
    /\ routine["processEvents"].at = "select"

(***************************************************************************)
(* The firewall's enabled flag in a pass                                   *)
(***************************************************************************)
\* C35: when an enforce-mode pass with no failed result has returned and the
\* desired firewall is disabled with no allowed services, the live firewall
\* is not enabled.
DisabledFirewallIsEnforced ==
    \A p \in Callers :
        (/\ PassDone(p) /\ run[p].entryMode = ModeEnforce
         /\ state.Firewall = NoFirewall
         /\ \A i \in DOMAIN run[p].results : run[p].results[i].Error = NoError)
            => ~os.fw.enabled

(***************************************************************************)
(* Closing the queue, checked under SpecWatch                              *)
(***************************************************************************)
\* C36: once Stop has closed the event queue, the consumer and every
\* listener that was started have exited; no listener is left in its loop
\* or at a send, so none can send on the closed queue.
ClosedAfterAllExited ==
    watcher.closed => \A r \in Routines : routine[r].at \in {"none", "exited"}

\* The queue is closed with events of two listeners still in it: they sent
\* after the consumer had gone, and Stop waited for them.
WitnessClosedAfterAllExited ==
    /\ watcher.closed /\ Len(watcher.eventChan) >= 2
    /\ \E l1, l2 \in Listeners :
          /\ l1 # l2 /\ routine[l1].at = "exited" /\ routine[l2].at = "exited"
          /\ \E i, j \in DOMAIN watcher.eventChan :
                watcher.eventChan[i].Source = l1 /\ watcher.eventChan[j].Source = l2

(***************************************************************************)
(* Results counted as enforced                                             *)
(***************************************************************************)
\* C37: every result with no Error, WasCompliant false and DryRun false,
\* which the pass summary counts and logs as enforced and not as a dry run,
\* comes from an enforcer call that executed mutating commands, whatever
\* mode the enforcer was given.
EnforcedMeansExecuted ==
    \A p \in Callers : \A i \in DOMAIN run[p].results :
        (/\ run[p].results[i].Error = NoError
         /\ ~run[p].results[i].WasCompliant
         /\ ~run[p].results[i].DryRun)
            => run[p].calls[i].muts # <<>>

(***************************************************************************)
(* A file that is not there, checked under SpecApply                       *)
(***************************************************************************)
\* C38: FileApplier.Apply of any file spec to a path that does not exist
\* never returns Changed = false together with a nil error.
MissingFileIsDrift ==
    (last.kind = "file" /\ ~FileExists(last.pre, last.spec.Path))
        => ~(~last.Changed /\ last.Error = NoError)

(***************************************************************************)
(* The agent's own commands as events, checked under FairSpecLoop          *)
(***************************************************************************)
\* Nothing is left that leads to a ReconcileEvent call: no unread audit
\* record, no event in the queue, none at a send and none being handled.
Quiet ==
    /\ os.audit = {} /\ watcher.eventChan = <<>>
    /\ routine["auditd"].at = "loop" /\ routine["processEvents"].at = "select"

\* C39: on a node that matches the snapshot, with no command run by anyone
\* but the agent, event-triggered reconciliation stops: from some point on
\* nothing is left that leads to a ReconcileEvent call.
ReconciliationStops == <>[]Quiet

====
